---- MODULE Spec2Model ----
(***************************************************************************)
(* The FTP control-channel engine, CFtpControlSocket, of                   *)
(* src/src/engine/ftp/ftpcontrolsocket.cpp.                                *)
(*                                                                         *)
(* Every handler of the class is an operator on a record s holding the     *)
(* members of the object (named as in the source), the outstanding         *)
(* commands as the server sees them (wire) and history kept for the        *)
(* properties (ev, owed, ...).   An action runs one handler, with all it   *)
(* calls, on the current state.                                            *)
(*                                                                         *)
(* The code of the repository that is not under src/ (the base class       *)
(* CControlSocket, the logon, change-directory and raw-transfer op-data    *)
(* classes, the reply-code header) is modelled from spec.md.               *)
(***************************************************************************)
EXTENDS Integers, Sequences, FiniteSets, TLC

VARIABLES
    connected,                \* currentServer_ is set and the socket is open
    connecting,               \* "no", "tcp" (connect in progress), "tls" (implicit TLS handshake in progress)
    protocol,                 \* currentServer_.GetProtocol()
    m_pTlsSocket,             \* a TLS layer exists
    m_pendingReplies,
    m_repliesToSkip,
    m_MultilineResponseCode,
    m_MultilineResponseLines,
    m_lastTypeBinary,
    m_idleTimer,              \* the one-shot idle timer is armed
    m_pTransferSocket,        \* NoSocket, or the data socket with its transfer end reason
    m_pCurOpData,             \* the op-data stack, Head = m_pCurOpData, Tail = the pNextOpData chain
    m_receiveBuffer,          \* the first m_bufferLen bytes of the receive buffer
    localFile,                \* the size of the local file of the transfer, -1: there is none
    caps,                     \* CServerCapabilities, for the one server of the model
    pasvMode,                 \* currentServer_.GetPasvMode()
    preserveTimestamps,       \* engine_.GetOptions().GetOptionVal(OPTION_PRESERVE_TIMESTAMPS)
    srvType,                  \* history: the transfer type in effect at the server, "A" or "I"; "any" after a raw command; "untracked" where it is not kept
    m_pIPResolver,            \* the external-IP resolver: "none", "running" or "done"
    ipQueued,                 \* number of external-IP events posted to the event queue
    wire,                     \* server side: the commands not yet answered with a final reply
    srvMulti,                 \* server side: the code of the multi-line reply being sent, or <<>>
    srvCount,                 \* server side: lines sent for the command at the head of wire
    transferEndQueued,        \* number of transfer_end events posted to the event queue
    opCount,                  \* engine commands started so far
    nKeepalive,
    nCancel,
    nExtra,                   \* replies the server has sent that answer no command
    received,                 \* history: the bytes read from the socket, in order
    parsed,                   \* history: the lines OnReceive has handed to ParseLine, in order
    sentLessFinal,            \* history: since OnConnect, the commands sent less the non-1xx replies received
    nDropped,                 \* history: since OnConnect, the non-1xx replies received while nothing was pending
    welcome,                  \* history: 1 once OnConnect has made the welcome message a pending reply
    owed,                     \* history: replies in flight at the last reset, not yet received
    pops,                     \* history: the frames the last handler popped, each with its result
    results,                  \* history: the results the last handler gave to the engine
    crashed,                  \* the process has crashed
    lastDeliv,                \* history: <<owner of the reply, epoch of the op, command answered>> if the last handler gave an op a reply to parse
    ev                        \* history: what the last handler did, in order

vars == <<connected, connecting, protocol, m_pTlsSocket, m_pendingReplies, m_repliesToSkip,
          m_MultilineResponseCode, m_MultilineResponseLines, m_lastTypeBinary, m_idleTimer,
          m_pTransferSocket, m_pCurOpData, m_receiveBuffer, localFile, caps, pasvMode,
          preserveTimestamps, srvType, m_pIPResolver, ipQueued, wire, srvMulti, srvCount, transferEndQueued, opCount, nKeepalive, nCancel, nExtra, received, parsed,
          sentLessFinal, nDropped, welcome, owed,
          lastDeliv, ev, results, pops, crashed>>

----------------------------------------------------------------------------
(* Bounds of the model. *)

MaxOps == 3          \* engine commands (Connect included)
MaxPrelim == 1       \* 1xx replies the server sends per command
MaxMid == 1          \* lines between the opening and the closing line of a multi-line reply
MaxKeepalive == 1    \* keep-alive commands
MaxCancel == 1       \* cancels
MaxExtra == 1        \* replies the server sends that answer no command
MaxBytes == 6        \* bytes read from the socket of a connection

\* The sizes of the receive buffer, scaled down: MAXLINELEN < RECVBUFFERSIZE.
MAXLINELEN == 3
RECVBUFFERSIZE == 6

----------------------------------------------------------------------------
(* Reply codes: a bitset, modelled as a set of flags. *)

FZ_REPLY_OK == {}
FZ_REPLY_WOULDBLOCK == {"WOULDBLOCK"}
FZ_REPLY_CONTINUE == {"CONTINUE"}
FZ_REPLY_ERROR == {"ERROR"}
FZ_REPLY_CRITICALERROR == {"ERROR", "CRITICAL"}
FZ_REPLY_CANCELED == {"ERROR", "CANCELED"}
FZ_REPLY_DISCONNECTED == {"DISCONNECTED"}
FZ_REPLY_INTERNALERROR == {"ERROR", "INTERNAL"}
FZ_REPLY_WRITEFAILED == {"ERROR", "WRITEFAILED"}
FZ_REPLY_TIMEOUT == {"ERROR", "TIMEOUT"}

----------------------------------------------------------------------------
(* Lines of the control connection: sequences of characters. *)

Code150 == <<"1", "5", "0">>
Code200 == <<"2", "0", "0">>
Code211 == <<"2", "1", "1">>
Code213 == <<"2", "1", "3">>
Code350 == <<"3", "5", "0">>
Code550 == <<"5", "5", "0">>

Sp(code) == code \o <<" ">>
Dash(code) == code \o <<"-">>

\* The characters fz::trim removes, and the letters of the model in both cases.
WhiteSpace == {" ", "\t", "\r", "\n"}
LowerCase == <<"a", "b", "d", "l", "m", "s", "t">>
UpperCase == <<"A", "B", "D", "L", "M", "S", "T">>

LineSsh == <<"S", "S", "H", "-", "2">>
LineText == <<" ", "U", "T", "F", "8">>
LineTiny == <<" ", "x">>

\* The final replies a server gives to a command, single-line.
FinalCodes == {Code200, Code350, Code550}

\* What a server may send between the opening line "NNN-" and the closing line "NNN ".
MidLines(code) == {l \in {Sp(Code200), Sp(Code550), Dash(Code200), Dash(Code550),
                          Code200, LineText, LineTiny} : l # Sp(code)}

\* The commands that start a transfer on the data connection.
DataCommands == {"RETR", "STOR", "APPE"}

\* The data socket: its TransferMode, "transfer" (download or upload) or "resumetest",
\* and its transfer end reason.
NoSocket == [exists |-> FALSE, reason |-> "none", mode |-> "transfer"]
NewSocket == [exists |-> TRUE, reason |-> "none", mode |-> "transfer"]

\* The capabilities of a server nothing is known of.  The parameter of mlsd_command
\* is its facts string.
NoCaps == [utf8_command |-> "unknown", clnt_command |-> "unknown",
           mlsd_command |-> "unknown", facts |-> <<>>, timezone_offset |-> "unknown",
           mode_z_support |-> "unknown", mfmt_command |-> "unknown",
           mdtm_command |-> "unknown", size_command |-> "unknown",
           tvfs_support |-> "unknown", rest_stream |-> "unknown",
           epsv_command |-> "unknown", resume2GBbug |-> "unknown",
           resume4GBbug |-> "unknown"]

\* What a handler finds outside the object when it asks: probe, the directory cache
\* and the server's capabilities send the transfer to a further probe (SIZE, MDTM)
\* instead of the overwrite check; exists, the target file exists; ioOk, the local file
\* opens and the data connection is set up; thread, the I/O thread starts.
Envs == {[probe |-> TRUE, exists |-> FALSE, ioOk |-> TRUE, thread |-> TRUE],
         [probe |-> FALSE, exists |-> TRUE, ioOk |-> TRUE, thread |-> TRUE],
         [probe |-> FALSE, exists |-> FALSE, ioOk |-> TRUE, thread |-> TRUE],
         [probe |-> FALSE, exists |-> FALSE, ioOk |-> FALSE, thread |-> TRUE],
         [probe |-> FALSE, exists |-> FALSE, ioOk |-> TRUE, thread |-> FALSE]}
NoEnv == [probe |-> "unasked", exists |-> "unasked", ioOk |-> "unasked",
          thread |-> "unasked"]

\* One level of the op-data stack.  A field a kind of op does not have keeps its default.
\* The frame of a raw transfer lies on the frame of the op that started it: pOldData is
\* the second frame of the stack.
Frame(opId, opState, epoch) ==
    [opId |-> opId, opState |-> opState, waitForAsyncRequest |-> FALSE, epoch |-> epoch,
     pNextOpData |-> "none",             \* the opId of the frame below, once Push has linked it
     tryMkdOnFail |-> FALSE,             \* CFtpChangeDirOpData
     gotFirstWelcomeLine |-> FALSE,      \* CFtpLogonOpData ...
     feat |-> FALSE,                     \* the logon goes on to FEAT after the login
     password |-> "known",               \* the password: known, asked of the user, or not encodable
     gotPassword |-> FALSE,
     m_command |-> "",                   \* CRawCommandOpData
     path |-> "/",                       \* the directory of the op: path, remotePath, GetFromPath(), GetPath()
     file |-> "",                        \* GetFromFile(), GetFile()
     toPath |-> "/",                     \* CFtpRenameOpData: m_cmd.GetToPath() ...
     toFile |-> "",
     m_useAbsolute |-> FALSE,            \* CFtpRenameOpData, CFtpChmodOpData
     files |-> <<>>,                     \* CFtpDeleteOpData ...
     omitPath |-> FALSE,                 \* CFtpDeleteOpData, CFtpRemoveDirOpData
     m_deleteFailed |-> FALSE,
     subDir |-> "",                      \* CFtpRemoveDirOpData ...
     fullPath |-> "",
     download |-> FALSE,                 \* CFtpFileTransferOpData ...
     tryAbsolutePath |-> FALSE,
     resume |-> FALSE,
     fileDidExist |-> TRUE,
     localFileExists |-> FALSE,          \* the local file (download) or remote file (upload) exists
     created |-> FALSE,                  \* history: the op has created the local file
     opened |-> FALSE,                   \* history: the op has opened the local file
     sizeAtReset |-> -1,                 \* history: the size of the local file when the op was reset
     binary |-> TRUE,
     localFileSize |-> -1,
     remoteFileSize |-> -1,
     entrySize |-> -1,                   \* the size the directory cache has for the remote file, -1: none
     resumeOffset |-> 0,
     tranferCommandSent |-> FALSE,
     transferEndReason |-> "successful",
     transferInitiated |-> FALSE,
     cmd_ |-> "",                        \* CFtpRawTransferOpData ...
     bPasv |-> TRUE,
     queued |-> <<>>,                    \* history: the files the delete op was started with
     cmds |-> <<>>,                      \* history: the commands sent for the op, sub-ops included
     replies |-> <<>>,                   \* history: the replies parsed for the op, each with the command it answers
     nData |-> 0,                        \* history: the data-channel commands the op has sent
     awaiting |-> FALSE,                 \* history: the op has sent a command and not been given its final reply
     finalSeen |-> "none",               \* history: the final reply to the transfer command, "good" or "bad"
     reported |-> "none",                \* history: the end reason the data socket had when the op was reset
     endSeen |-> "none",                 \* history: the end reason TransferEnd has seen
     seen |-> <<>>]                      \* history: the replies to the transfer command and the end of the data socket, in order (a final reply that comes before the end stands alone)

NoDeliv == <<0, 0, "">>

Cur == [connected |-> connected, connecting |-> connecting, protocol |-> protocol,
        m_pTlsSocket |-> m_pTlsSocket,
        m_pendingReplies |-> m_pendingReplies, m_repliesToSkip |-> m_repliesToSkip,
        m_MultilineResponseCode |-> m_MultilineResponseCode,
        m_MultilineResponseLines |-> m_MultilineResponseLines,
        m_Response |-> <<>>,
        m_lastTypeBinary |-> m_lastTypeBinary, m_idleTimer |-> m_idleTimer,
        m_pTransferSocket |-> m_pTransferSocket, m_pCurOpData |-> m_pCurOpData,
        m_receiveBuffer |-> m_receiveBuffer, localFile |-> localFile, caps |-> caps,
        pasvMode |-> pasvMode, preserveTimestamps |-> preserveTimestamps,
        srvType |-> srvType,
        m_pIPResolver |-> m_pIPResolver, ipQueued |-> ipQueued,
        parsed |-> parsed,
        wire |-> wire, replyOwner |-> 0, replyCmd |-> "",
        sentLessFinal |-> sentLessFinal, nDropped |-> nDropped, welcome |-> welcome,
        owed |-> owed, lastDeliv |-> NoDeliv, ev |-> <<>>, results |-> <<>>, pops |-> <<>>,
        crashed |-> crashed,
        k |-> <<>>, ub |-> "unasked", env |-> NoEnv, ret |-> FZ_REPLY_OK, ok |-> TRUE]

Apply(r) ==
    /\ connected' = r.connected
    /\ connecting' = r.connecting
    /\ protocol' = r.protocol
    /\ m_pTlsSocket' = r.m_pTlsSocket
    /\ m_pendingReplies' = r.m_pendingReplies
    /\ m_repliesToSkip' = r.m_repliesToSkip
    /\ m_MultilineResponseCode' = r.m_MultilineResponseCode
    /\ m_MultilineResponseLines' = r.m_MultilineResponseLines
    /\ m_lastTypeBinary' = r.m_lastTypeBinary
    /\ m_idleTimer' = r.m_idleTimer
    /\ m_pTransferSocket' = r.m_pTransferSocket
    /\ m_pCurOpData' = r.m_pCurOpData
    /\ m_receiveBuffer' = r.m_receiveBuffer
    /\ localFile' = r.localFile
    /\ caps' = r.caps
    /\ pasvMode' = r.pasvMode
    /\ preserveTimestamps' = r.preserveTimestamps
    /\ srvType' = r.srvType
    /\ m_pIPResolver' = r.m_pIPResolver
    /\ ipQueued' = r.ipQueued
    /\ parsed' = r.parsed
    /\ wire' = r.wire
    /\ sentLessFinal' = r.sentLessFinal
    /\ nDropped' = r.nDropped
    /\ welcome' = r.welcome
    /\ owed' = r.owed
    /\ pops' = r.pops
    /\ lastDeliv' = r.lastDeliv
    /\ ev' = r.ev
    /\ results' = r.results
    /\ crashed' = r.crashed

Ret(s, r) == [s EXCEPT !.ret = r]
Log(s, tag) == [s EXCEPT !.ev = Append(@, tag)]
Top(s) == Head(s.m_pCurOpData)
SetTop(s, f) == [s EXCEPT !.m_pCurOpData = <<f>> \o Tail(@)]
SetOpState(s, st) == SetTop(s, [Top(s) EXCEPT !.opState = st])

\* CControlSocket::GetCurrentCommandId
GetCurrentCommandId(s) == IF s.m_pCurOpData # <<>> THEN Top(s).opId ELSE "none"

\* CControlSocket::Push
Push(s, f) ==
    [s EXCEPT !.m_pCurOpData =
        <<[f EXCEPT !.pNextOpData = IF s.m_pCurOpData = <<>> THEN "none"
                                    ELSE s.m_pCurOpData[1].opId]>> \o @]

\* pData->pOldData of the raw transfer on top of the stack
Old(s) == s.m_pCurOpData[2]
SetOld(s, f) == [s EXCEPT !.m_pCurOpData[2] = f]

----------------------------------------------------------------------------
(* The handlers.  A handler is an operator on the record s.  Where the C++ *)
(* method calls another method that may call back (ResetOperation,         *)
(* SendNextCommand, an op's Send, ...), the operator puts the callee and   *)
(* what follows the call on the list s.k of calls still to make; Run makes *)
(* the calls in order until none is left, so that an action is the whole   *)
(* handler with everything it calls.  s.ret is the value last returned.    *)

K(pc, a) == [pc |-> pc, a |-> a]
Call(s, calls) == [s EXCEPT !.k = calls \o @]

\* GetReplyCode
Digits == {"0", "1", "2", "3", "4", "5", "6", "7", "8", "9"}
DigitVal(c) == CASE c = "0" -> 0 [] c = "1" -> 1 [] c = "2" -> 2 [] c = "3" -> 3
                 [] c = "4" -> 4 [] c = "5" -> 5 [] c = "6" -> 6 [] c = "7" -> 7
                 [] c = "8" -> 8 [] c = "9" -> 9

GetReplyCode(s) ==
    IF s.m_Response = <<>> THEN 0
    ELSE IF s.m_Response[1] \notin Digits THEN 0
    ELSE DigitVal(s.m_Response[1])

\* Variants of RepliesToSkipOnReset that skip one reply too many, and none.
RepliesToSkipOneMore(pending) == pending + 1

RepliesToSkipNone(pending) == 0

\* ResetOperation: the replies still in flight are to be skipped.
RepliesToSkipOnReset(pending) == pending

\* StartKeepaliveTimer.  The option ftp_send_keepalive is set and the last command
\* completed less than 30 minutes ago.
OPTION_FTP_SENDKEEPALIVE == TRUE

StartKeepaliveTimer(s) ==
    IF ~OPTION_FTP_SENDKEEPALIVE THEN s
    ELSE IF s.m_repliesToSkip # 0 \/ s.m_pendingReplies # 0 THEN s
    ELSE [s EXCEPT !.m_idleTimer = TRUE]

\* ConvToServer fails on a command that the server's charset cannot encode.
Encodable(str) == str \notin {"RAWBAD", "PASSBAD", "CWD /bad", "RMD /bad/d"}

\* The op a command is sent for: the operation on the stack, 0 for a keep-alive.
Owner(s) == IF s.m_pCurOpData # <<>> THEN Top(s).epoch ELSE 0

\* The ops whose commands and replies are kept as history.
TracedOps == {"del", "removedir", "rename", "chmod"}

\* History of a command sent: the op on top of the stack awaits the reply.  "sendtwice":
\* it sends a command while it awaits the reply to an earlier one.
Sent(s, str) ==
    IF s.m_pCurOpData = <<>> THEN s
    ELSE LET s1 == SetTop(IF Top(s).awaiting THEN Log(s, "sendtwice") ELSE s,
                          [Top(s) EXCEPT !.awaiting = TRUE,
                                         !.nData = IF str \in DataCommands THEN @ + 1
                                                   ELSE @])
             n == Len(s.m_pCurOpData)
         IN  IF s.m_pCurOpData[n].opId \in TracedOps
             THEN [s1 EXCEPT !.m_pCurOpData[n].cmds = Append(@, str)]
             ELSE s1

\* A variant of SendCommand that sends the command whether it can be converted or not.
SendCommandAny(s, str) ==
    [Sent(s, str) EXCEPT !.m_pendingReplies = @ + 1,
                         !.wire = Append(@, [cmd |-> str, owner |-> Owner(s)]),
                         !.sentLessFinal = @ + 1,
                         !.ev = Append(@, "send"),
                         !.ok = TRUE]

SendCommand(s, str) ==
    IF ~Encodable(str)
    THEN Call(Log(s, "convfail"), <<K("ResetOperation", FZ_REPLY_ERROR), K("SetOk", FALSE)>>)
    ELSE [Sent(s, str) EXCEPT !.m_pendingReplies = @ + 1,
                         !.wire = Append(@, [cmd |-> str, owner |-> Owner(s)]),
                         !.sentLessFinal = @ + 1,
                         !.ev = Append(@, "send"),
                         !.ok = TRUE]

\* "if (!SendCommand(cmd)) return FZ_REPLY_ERROR; return FZ_REPLY_WOULDBLOCK;"
RetFromSend(s) == Ret(s, IF s.ok THEN FZ_REPLY_WOULDBLOCK ELSE FZ_REPLY_ERROR)

\* CControlSocket::DoClose
DoClose(s, nErrorCode) ==
    Call(s, <<K("ResetOperation", FZ_REPLY_ERROR \cup FZ_REPLY_DISCONNECTED \cup nErrorCode),
              K("DoCloseEnd", {})>>)

DoCloseEnd(s) ==
    [s EXCEPT !.connected = FALSE, !.connecting = "no", !.wire = <<>>,
              !.m_idleTimer = FALSE, !.ev = Append(@, "close")]

----------------------------------------------------------------------------
(* The logon op (CFtpLogonOpData), reduced to welcome, USER, PASS and FEAT.  A        *)
(* password the engine does not have is asked of the user with an interactive-login   *)
(* request.  The reply to FEAT, whatever it is, ends the logon.                       *)

\* The state after the login has succeeded, and the result to go on with.
LoggedOn(s) ==
    IF Top(s).feat THEN Ret(SetOpState(s, "LOGON_FEAT"), FZ_REPLY_CONTINUE)
    ELSE Ret(s, FZ_REPLY_OK)

LogonSend(s) ==
    CASE Top(s).opState = "LOGON_WELCOME" -> Ret(s, FZ_REPLY_WOULDBLOCK)
      [] Top(s).opState = "LOGON_LOGON" ->
            Call(s, <<K("SendCommand", "USER"), K("RetFromSend", {})>>)
      [] Top(s).opState = "LOGON_PASS" ->
            IF Top(s).password = "ask" /\ ~Top(s).gotPassword
            THEN Ret(Log(SetTop(s, [Top(s) EXCEPT !.waitForAsyncRequest = TRUE]),
                         "ask_password"),
                     FZ_REPLY_WOULDBLOCK)
            ELSE Call(s, <<K("SendCommand",
                             IF Top(s).password = "bad" THEN "PASSBAD" ELSE "PASS"),
                           K("RetFromSend", {})>>)
      [] Top(s).opState = "LOGON_FEAT" ->
            Call(s, <<K("SendCommand", "FEAT"), K("RetFromSend", {})>>)

LogonParseResponse(s) ==
    LET code == GetReplyCode(s)
    IN  CASE Top(s).opState = "LOGON_WELCOME" ->
                IF code = 2 THEN Ret(SetOpState(s, "LOGON_LOGON"), FZ_REPLY_CONTINUE)
                ELSE Ret(s, FZ_REPLY_ERROR)
          [] Top(s).opState = "LOGON_LOGON" ->
                IF code = 2 THEN LoggedOn(s)
                ELSE IF code = 3 THEN Ret(SetOpState(s, "LOGON_PASS"), FZ_REPLY_CONTINUE)
                ELSE Ret(s, FZ_REPLY_ERROR)
          [] Top(s).opState = "LOGON_PASS" ->
                IF code = 2 THEN LoggedOn(s) ELSE Ret(s, FZ_REPLY_ERROR)
          [] Top(s).opState = "LOGON_FEAT" -> Ret(s, FZ_REPLY_OK)

----------------------------------------------------------------------------
(* Raw command *)

RawCommandSend(s) ==
    Call([s EXCEPT !.m_lastTypeBinary = -1],
         <<K("SendCommand", Top(s).m_command), K("RetFromSend", {})>>)

RawCommandParseResponse(s) ==
    LET code == GetReplyCode(s)
    IN  IF code = 2 \/ code = 3
        THEN Call(s, <<K("ResetOperation", FZ_REPLY_OK), K("SetRet", FZ_REPLY_OK)>>)
        ELSE Call(s, <<K("ResetOperation", FZ_REPLY_ERROR), K("SetRet", FZ_REPLY_ERROR)>>)

----------------------------------------------------------------------------
(* The change-directory op (CFtpChangeDirOpData): CWD, then PWD. *)

\* ChangeDir: the new frame is tested for the op below it before Push has linked the
\* two, while its pNextOpData is as its constructor has left it.
ChangeDir(s) ==
    LET pData == [Frame("cwd", "cwd_init", Top(s).epoch) EXCEPT !.path = Top(s).path]
    IN  Push(s, [pData EXCEPT !.tryMkdOnFail =
                     /\ pData.pNextOpData # "none"
                     /\ pData.pNextOpData = "transfer"
                     /\ ~Top(s).download])

CwdSend(s) ==
    CASE Top(s).opState = "cwd_init" ->
            Call(SetOpState(s, "cwd_cwd"),
                 <<K("SendCommand", "CWD " \o Top(s).path), K("RetFromSend", {})>>)
      [] Top(s).opState = "cwd_cwd" ->
            Call(s, <<K("SendCommand", "CWD " \o Top(s).path), K("RetFromSend", {})>>)
      [] Top(s).opState = "cwd_pwd_cwd" ->
            Call(s, <<K("SendCommand", "PWD"), K("RetFromSend", {})>>)

CwdParseResponse(s) ==
    LET code == GetReplyCode(s)
    IN  CASE Top(s).opState = "cwd_cwd" ->
                IF code = 2 \/ code = 3
                THEN Ret(SetOpState(s, "cwd_pwd_cwd"), FZ_REPLY_CONTINUE)
                ELSE Ret(s, FZ_REPLY_ERROR)
          [] Top(s).opState = "cwd_pwd_cwd" ->
                IF code = 2 \/ code = 3 THEN Ret(s, FZ_REPLY_OK) ELSE Ret(s, FZ_REPLY_ERROR)
          [] OTHER -> Ret(s, FZ_REPLY_INTERNALERROR)

----------------------------------------------------------------------------
(* The raw-transfer op (CFtpRawTransferOpData), passive mode. *)

\* A variant of Transfer that starts every raw transfer with TYPE.
TransferAlwaysType(s, cmd) ==
    LET s1 == SetTop(s, [Top(s) EXCEPT !.tranferCommandSent = FALSE,
                                       !.transferEndReason = "successful"])
    IN  Push(s1, [Frame("rawtransfer", "rawtransfer_type", Top(s).epoch)
                     EXCEPT !.cmd_ = cmd, !.bPasv = s.pasvMode # "MODE_ACTIVE"])

\* Transfer
Transfer(s, cmd) ==
    LET s1 == SetTop(s, [Top(s) EXCEPT !.tranferCommandSent = FALSE,
                                       !.transferEndReason = "successful"])
    IN  Push(s1, [Frame("rawtransfer",
                        IF \/ Top(s).binary /\ s.m_lastTypeBinary = 1
                           \/ ~Top(s).binary /\ s.m_lastTypeBinary = 0
                        THEN "rawtransfer_port_pasv"
                        ELSE "rawtransfer_type",
                        Top(s).epoch) EXCEPT !.cmd_ = cmd,
                                             !.bPasv = s.pasvMode # "MODE_ACTIVE"])

\* GetExternalIPAddress with OPTION_EXTERNALIPMODE 2 and no cached address: the resolver
\* is started and the op waits for its event; with a resolver, its address is taken if
\* it has one and the local address otherwise.
GetExternalIPAddress(s) ==
    IF s.m_pIPResolver = "none"
    THEN Ret(Log([s EXCEPT !.m_pIPResolver = "running"], "resolve"), FZ_REPLY_WOULDBLOCK)
    ELSE Ret(Log([s EXCEPT !.m_pIPResolver = "none"],
                 IF s.m_pIPResolver = "ok" THEN "ip_external" ELSE "ip_local"),
             FZ_REPLY_OK)

\* A variant of OnExternalIPAddress that does not look for the resolver.
OnExternalIPAddressAlways(s) == Call(Log(s, "ipevent"), <<K("SendNextCommand", {})>>)

OnExternalIPAddress(s) ==
    IF s.m_pIPResolver = "none" THEN Log(s, "ipevent_ignored")
    ELSE Call(Log(s, "ipevent"), <<K("SendNextCommand", {})>>)

RawTransferSend(s) ==
    IF ~s.m_pTransferSocket.exists THEN Ret(s, FZ_REPLY_INTERNALERROR)
    ELSE
    CASE Top(s).opState = "rawtransfer_type" ->
            Call([s EXCEPT !.m_lastTypeBinary = -1],
                 <<K("SendCommand", IF Old(s).binary THEN "TYPE I" ELSE "TYPE A"),
                   K("RetFromSend", {})>>)
      [] Top(s).opState = "rawtransfer_port_pasv" ->
            IF Top(s).bPasv
            THEN Call(s, <<K("SendCommand", "PASV"), K("RetFromSend", {})>>)
            ELSE LET s1 == GetExternalIPAddress(s)
                 IN  IF s1.ret # FZ_REPLY_OK THEN s1
                     ELSE Call(s1, <<K("SendCommand", "PORT"), K("RetFromSend", {})>>)
      [] Top(s).opState = "rawtransfer_rest" ->
            Call(s, <<K("SendCommand", "REST"), K("RetFromSend", {})>>)
      [] Top(s).opState = "rawtransfer_transfer" ->
            IF ~s.env.ioOk THEN Ret(Log(s, "pasvfail"), FZ_REPLY_ERROR)
            ELSE Call(SetOld(s, [Old(s) EXCEPT !.tranferCommandSent = TRUE]),
                      <<K("SendCommand", Top(s).cmd_), K("RetFromSend", {})>>)
      [] OTHER -> Ret(s, FZ_REPLY_WOULDBLOCK)

\* The end reason a failed reply gives a transfer that had not failed before.
FailReason(s, reason) ==
    IF Old(s).transferEndReason = "successful"
    THEN SetOld(s, [Old(s) EXCEPT !.transferEndReason = reason])
    ELSE s

\* A variant of AfterPreliminary that leaves the raw transfer where it sends its command.
AfterPreliminaryStays == "rawtransfer_transfer"

\* The state a 1xx reply to the transfer command takes the raw transfer to.
AfterPreliminary == "rawtransfer_waitfinish"

RawTransferParseResponse(s) ==
    LET code == GetReplyCode(s)
        good == code = 2 \/ code = 3
        st == Top(s).opState
    IN  CASE st = "rawtransfer_type" ->
                IF good
                THEN Ret([SetOpState(s, "rawtransfer_port_pasv") EXCEPT
                            !.m_lastTypeBinary = IF Old(s).binary THEN 1 ELSE 0],
                         FZ_REPLY_CONTINUE)
                ELSE Ret(s, FZ_REPLY_ERROR)
          [] st = "rawtransfer_port_pasv" ->
                IF good
                THEN Ret(SetOpState(s, IF Old(s).resumeOffset > 0 THEN "rawtransfer_rest"
                                       ELSE "rawtransfer_transfer"),
                         FZ_REPLY_CONTINUE)
                ELSE Ret(s, FZ_REPLY_ERROR)
          [] st = "rawtransfer_rest" ->
                IF good THEN Ret(SetOpState(s, "rawtransfer_transfer"), FZ_REPLY_CONTINUE)
                ELSE Ret(s, FZ_REPLY_ERROR)
          [] st = "rawtransfer_transfer" ->
                IF code = 1 THEN Ret(SetOpState(s, AfterPreliminary), FZ_REPLY_CONTINUE)
                ELSE IF good
                THEN Ret(SetOpState(s, "rawtransfer_waitsocket"), FZ_REPLY_CONTINUE)
                ELSE Ret(FailReason(s, "transfer_command_failure_immediate"), FZ_REPLY_ERROR)
          [] st = "rawtransfer_waittransferpre" ->
                IF code = 1 THEN Ret(SetOpState(s, "rawtransfer_waittransfer"), FZ_REPLY_CONTINUE)
                ELSE IF good
                THEN IF Old(s).transferEndReason # "successful" THEN Ret(s, FZ_REPLY_ERROR)
                     ELSE Ret(s, FZ_REPLY_OK)
                ELSE Ret(FailReason(s, "transfer_command_failure_immediate"), FZ_REPLY_ERROR)
          [] st = "rawtransfer_waitfinish" ->
                IF good THEN Ret(SetOpState(s, "rawtransfer_waitsocket"), FZ_REPLY_CONTINUE)
                ELSE Ret(FailReason(s, "transfer_command_failure"), FZ_REPLY_ERROR)
          [] st = "rawtransfer_waittransfer" ->
                IF good
                THEN IF Old(s).transferEndReason # "successful" THEN Ret(s, FZ_REPLY_ERROR)
                     ELSE Ret(s, FZ_REPLY_OK)
                ELSE Ret(FailReason(s, "transfer_command_failure"), FZ_REPLY_ERROR)
          [] OTHER -> Ret(Log(s, "extra_reply"), FZ_REPLY_ERROR)

\* A variant of TransferEndState that waits in rawtransfer_waittransfer whenever the
\* data socket has ended.
TransferEndStateOneWait(opState) ==
    CASE opState = "rawtransfer_transfer" -> "rawtransfer_waittransfer"
      [] opState = "rawtransfer_waitfinish" -> "rawtransfer_waittransfer"
      [] OTHER -> opState

\* The op state TransferEnd gives a raw transfer.
TransferEndState(opState) ==
    CASE opState = "rawtransfer_transfer" -> "rawtransfer_waittransferpre"
      [] opState = "rawtransfer_waitfinish" -> "rawtransfer_waittransfer"
      [] OTHER -> opState

\* TransferEnd looks at the event only with an op, a data socket and a raw transfer.
TransferEndExpected(s) ==
    /\ s.m_pCurOpData # <<>>
    /\ s.m_pTransferSocket.exists
    /\ GetCurrentCommandId(s) = "rawtransfer"

\* A variant of TransferEndIgnored that fails the operation in progress.
TransferEndIgnoredFails(s) ==
    Call(Log(s, "transferend_ignored"), <<K("ResetOperation", FZ_REPLY_ERROR)>>)

\* "Call to TransferEnd at unusual time, ignoring": the event is logged and that is all.
TransferEndIgnored(s) == Log(s, "transferend_ignored")

\* A variant of TransferEndResult that does not look at the end reason.
TransferEndResultOk(reason) == FZ_REPLY_OK

\* The result TransferEnd ends a raw transfer with that waits for the socket only.
TransferEndResult(reason) ==
    IF reason = "successful" THEN FZ_REPLY_OK ELSE FZ_REPLY_ERROR

TransferEnd(s) ==
    IF ~TransferEndExpected(s) THEN TransferEndIgnored(s)
    ELSE
    LET reason == s.m_pTransferSocket.reason
    IN  IF reason = "none" THEN Log(s, "transferend_none")
        ELSE
        LET s1 == IF Old(s).transferEndReason = "successful"
                  THEN SetOld(s, [Old(s) EXCEPT !.transferEndReason = reason])
                  ELSE s
            s2 == Log(SetTop(s1, [Top(s1) EXCEPT !.endSeen = reason,
                                                 !.seen = IF Top(s1).endSeen = "none"
                                                          THEN Append(@, "end")
                                                          ELSE @]),
                      "transferend")
        IN  IF Top(s2).opState = "rawtransfer_waitsocket"
            THEN Call(s2, <<K("ResetOperation", TransferEndResult(reason))>>)
            ELSE SetOpState(s2, TransferEndState(Top(s2).opState))

----------------------------------------------------------------------------
(* The file-transfer op (CFtpFileTransferOpData).  The directory cache never asks for  *)
(* a listing, the local file has a modification time and the remote file has none.    *)

OPTION_PRESERVE_TIMESTAMPS(s) == s.preserveTimestamps

\* The limits of the resume test, 1ll << 31 and 1ll << 32, scaled down.
Limit2GB == 2
Limit4GB == 4

\* FileTransfer.  entry: the size the directory cache has for the remote file.
FileTransfer(s, download, binary, entry, epoch) ==
    Ret(ChangeDir(Push(s, [Frame("transfer", "filetransfer_waitcwd", epoch) EXCEPT
                             !.download = download,
                             !.binary = binary,
                             !.entrySize = entry,
                             !.localFileSize = IF s.localFile >= 0 THEN s.localFile ELSE -1])),
        FZ_REPLY_CONTINUE)

\* CControlSocket::CheckOverwriteFile: if the target exists the user is asked.
CheckOverwriteFile(s) ==
    IF (IF Top(s).download THEN s.localFile >= 0 ELSE s.env.exists)
    THEN Ret(Log(SetTop(s, [Top(s) EXCEPT !.waitForAsyncRequest = TRUE,
                                          !.localFileExists = TRUE]), "ask"),
             FZ_REPLY_WOULDBLOCK)
    ELSE Ret(s, FZ_REPLY_OK)

\* "int res = CheckOverwriteFile(); if (res != FZ_REPLY_OK) return res;" and then the
\* end of the function, "return SendNextCommand();".
CheckOverwriteThenSend(s) ==
    LET s1 == CheckOverwriteFile(s)
    IN  IF s1.ret # FZ_REPLY_OK THEN s1 ELSE Call(s1, <<K("SendNextCommand", {})>>)

\* "for (auto c : str)": the number the leading digits of str stand for.
RECURSIVE LeadingNumber(_, _)
LeadingNumber(str, size) ==
    IF str = <<>> \/ Head(str) \notin Digits THEN size
    ELSE LeadingNumber(Tail(str), size * 10 + DigitVal(Head(str)))

\* FileTransferParseResponse, the good reply to SIZE: "213 " and more gives the size
\* of the remote file and tells that the server has SIZE.
SizeReply(s) ==
    IF Len(s.m_Response) > 4 /\ SubSeq(s.m_Response, 1, 4) = Sp(Code213)
    THEN Log([SetTop(s, [Top(s) EXCEPT !.remoteFileSize =
                                         LeadingNumber(SubSeq(s.m_Response, 5,
                                                              Len(s.m_Response)), 0)])
              EXCEPT !.caps.size_command = IF @ = "unknown" THEN "yes" ELSE @],
             "size_reply")
    ELSE Log(s, "invalid_size_reply")

FileTransferParseResponse(s) ==
    IF s.m_pCurOpData = <<>>
    THEN Call(s, <<K("ResetOperation", FZ_REPLY_INTERNALERROR), K("SetRet", FZ_REPLY_ERROR)>>)
    ELSE
    LET code == GetReplyCode(s)
        st == Top(s).opState
    IN  CASE st = "filetransfer_init" -> Ret(s, FZ_REPLY_ERROR)
          [] st = "filetransfer_size" ->
                IF code # 2 /\ code # 3
                THEN IF s.caps.size_command = "yes" \/ ~s.env.probe
                     THEN CheckOverwriteThenSend(SetOpState(s, "filetransfer_resumetest"))
                     ELSE Call(SetOpState(s, "filetransfer_mdtm"), <<K("SendNextCommand", {})>>)
                ELSE Call(SizeReply(SetOpState(s, "filetransfer_mdtm")),
                          <<K("SendNextCommand", {})>>)
          [] st = "filetransfer_mdtm" ->
                CheckOverwriteThenSend(SetOpState(s, "filetransfer_resumetest"))
          [] st = "filetransfer_mfmt" ->
                Call(s, <<K("ResetOperation", FZ_REPLY_OK), K("SetRet", FZ_REPLY_OK)>>)
          [] OTHER ->
                Call(Log(s, "unknown_opstate"),
                     <<K("ResetOperation", FZ_REPLY_ERROR), K("SetRet", FZ_REPLY_ERROR)>>)

FileTransferSubcommandResult(s, prevResult) ==
    IF s.m_pCurOpData = <<>>
    THEN Call(s, <<K("ResetOperation", FZ_REPLY_INTERNALERROR), K("SetRet", FZ_REPLY_ERROR)>>)
    ELSE
    LET st == Top(s).opState
        pData == Top(s)
    IN  CASE st = "filetransfer_waitcwd" ->
                IF prevResult = FZ_REPLY_OK
                THEN IF s.env.probe
                     THEN Call(SetOpState(s, "filetransfer_size"), <<K("SendNextCommand", {})>>)
                     ELSE IF /\ pData.download /\ OPTION_PRESERVE_TIMESTAMPS(s)
                             /\ s.caps.mdtm_command = "yes"
                     THEN Call(SetTop(s, [pData EXCEPT !.remoteFileSize = pData.entrySize,
                                                       !.opState = "filetransfer_mdtm"]),
                               <<K("SendNextCommand", {})>>)
                     ELSE CheckOverwriteThenSend(
                              SetTop(s, [pData EXCEPT !.remoteFileSize = pData.entrySize,
                                                      !.opState = "filetransfer_resumetest"]))
                ELSE Call(SetTop(s, [Top(s) EXCEPT !.tryAbsolutePath = TRUE,
                                                   !.opState = "filetransfer_size"]),
                          <<K("SendNextCommand", {})>>)
          [] st = "filetransfer_waittransfer" ->
                IF /\ prevResult = FZ_REPLY_OK /\ OPTION_PRESERVE_TIMESTAMPS(s)
                   /\ ~pData.download /\ s.caps.mfmt_command = "yes"
                THEN Call(SetOpState(s, "filetransfer_mfmt"), <<K("SendNextCommand", {})>>)
                ELSE Call(s, <<K("ResetOperation", prevResult), K("SetRet", prevResult)>>)
          [] st = "filetransfer_waitresumetest" ->
                LET bug == IF pData.localFileSize > Limit4GB THEN "resume4GBbug"
                           ELSE "resume2GBbug"
                IN  IF prevResult # FZ_REPLY_OK
                    THEN IF pData.transferEndReason = "failed_resumetest"
                         THEN Call(Log([s EXCEPT !.caps[bug] = "yes"], "resume_bug"),
                                   <<K("ResetOperation", prevResult \cup FZ_REPLY_CRITICALERROR),
                                     K("SetRet", FZ_REPLY_ERROR)>>)
                         ELSE Call(s, <<K("ResetOperation", prevResult),
                                        K("SetRet", prevResult)>>)
                    ELSE Call(Log(SetOpState([s EXCEPT !.caps[bug] = "no"],
                                             "filetransfer_transfer"), "resume_ok"),
                              <<K("SendNextCommand", {})>>)
          [] OTHER -> Call(s, <<K("SendNextCommand", {})>>)

\* FileTransferTestResumeCapability, its loop at i: "ok", the function returns
\* FZ_REPLY_OK; "match", it ends the transfer since the file sizes match; "bug", it
\* fails the transfer since the server cannot resume; "test", it starts the test.
ResumeCapabilityAt(pData, cap, limit, next) ==
    IF pData.localFileSize < limit THEN next
    ELSE CASE cap = "yes" ->
                IF pData.remoteFileSize = pData.localFileSize THEN "match" ELSE "bug"
           [] cap = "unknown" ->
                IF pData.remoteFileSize < pData.localFileSize THEN next
                ELSE IF pData.remoteFileSize = pData.localFileSize THEN "match"
                ELSE "test"
           [] OTHER -> next

FileTransferTestResumeCapability(s) ==
    LET pData == Top(s)
    IN  IF ~pData.download THEN "ok"
        ELSE ResumeCapabilityAt(pData, s.caps.resume4GBbug, Limit4GB,
                                ResumeCapabilityAt(pData, s.caps.resume2GBbug, Limit2GB, "ok"))

\* A variant of FileTransferSendStart that uploads with STOR whether it resumes or not.
FileTransferSendStartStor(s) ==
    IF ~s.env.thread
    THEN Call(Log(s, "nothread"),
              <<K("ResetOperation", FZ_REPLY_ERROR), K("SetRet", FZ_REPLY_ERROR)>>)
    ELSE Ret(Transfer([SetOpState(s, "filetransfer_waittransfer") EXCEPT
                         !.m_pTransferSocket = NewSocket],
                      IF Top(s).download THEN "RETR" ELSE "STOR"),
             FZ_REPLY_CONTINUE)

\* FileTransferSend, from the creation of the I/O thread on.
FileTransferSendStart(s) ==
    LET pData == Top(s)
        cmd == IF pData.download THEN "RETR"
               ELSE IF pData.resume /\ s.caps.rest_stream # "yes" THEN "APPE"
               ELSE "STOR"
    IN  IF ~s.env.thread
        THEN Call(Log(s, "nothread"),
                  <<K("ResetOperation", FZ_REPLY_ERROR), K("SetRet", FZ_REPLY_ERROR)>>)
        ELSE Ret(Transfer([SetOpState(s, "filetransfer_waittransfer") EXCEPT
                             !.m_pTransferSocket = NewSocket], cmd),
                 FZ_REPLY_CONTINUE)

\* FileTransferSend, for a download that resumes, once the local file is open.
FileTransferSendResume(s) ==
    LET pData == Top(s)
        res == IF pData.opState = "filetransfer_resumetest"
               THEN FileTransferTestResumeCapability(s) ELSE "ok"
    IN  CASE res = "match" ->
                Call(Log(s, "sizes_match"),
                     <<K("ResetOperation", FZ_REPLY_OK), K("SetRet", FZ_REPLY_OK)>>)
          [] res = "bug" ->
                Call(s, <<K("ResetOperation", FZ_REPLY_CRITICALERROR),
                          K("SetRet", FZ_REPLY_ERROR)>>)
          [] res = "test" ->
                Ret(Transfer([SetTop(s, [pData EXCEPT
                                           !.opState = "filetransfer_waitresumetest",
                                           !.resumeOffset = pData.remoteFileSize - 1])
                              EXCEPT !.m_pTransferSocket =
                                         [NewSocket EXCEPT !.mode = "resumetest"]],
                             "RETR"),
                    FZ_REPLY_CONTINUE)
          [] OTHER ->
                FileTransferSendStart(
                    SetTop(s, [pData EXCEPT !.resumeOffset = pData.localFileSize]))

\* A variant of FileTransferSendUpload that resumes whatever the sizes are.
FileTransferSendUploadAlways(s) ==
    FileTransferSendStart(
        SetTop(s, [Top(s) EXCEPT !.resumeOffset =
                       IF s.caps.rest_stream = "yes" /\ Top(s).remoteFileSize > 0
                       THEN Top(s).remoteFileSize ELSE 0]))

\* FileTransferSend, for an upload, once the local file is open.
FileTransferSendUpload(s) ==
    LET pData == Top(s)
        size == IF pData.localFileSize < 0 THEN s.localFile ELSE pData.localFileSize
        p1 == [pData EXCEPT !.localFileSize = size]
    IN  IF pData.resume /\ pData.remoteFileSize > 0
        THEN IF pData.remoteFileSize = size /\ pData.binary
             THEN IF OPTION_PRESERVE_TIMESTAMPS(s) /\ s.caps.mfmt_command = "yes"
                  THEN Call(Log(SetTop(s, [p1 EXCEPT !.opState = "filetransfer_mfmt"]),
                                "no_resume"),
                            <<K("SendNextCommand", {})>>)
                  ELSE Call(Log(SetTop(s, p1), "no_resume"),
                            <<K("ResetOperation", FZ_REPLY_OK), K("SetRet", FZ_REPLY_OK)>>)
             ELSE FileTransferSendStart(
                      SetTop(s, [p1 EXCEPT !.resumeOffset =
                                     IF s.caps.rest_stream = "yes" THEN pData.remoteFileSize
                                     ELSE 0]))
        ELSE FileTransferSendStart(SetTop(s, [pData EXCEPT !.resumeOffset = 0]))

FileTransferSend(s) ==
    IF s.m_pCurOpData = <<>>
    THEN Call(s, <<K("ResetOperation", FZ_REPLY_INTERNALERROR), K("SetRet", FZ_REPLY_ERROR)>>)
    ELSE
    LET st == Top(s).opState
        pData == Top(s)
    IN  CASE st = "filetransfer_size" ->
                Call(s, <<K("SendCommand", "SIZE"), K("RetFromSend", {})>>)
          [] st = "filetransfer_mdtm" ->
                Call(s, <<K("SendCommand", "MDTM"), K("RetFromSend", {})>>)
          [] st \in {"filetransfer_resumetest", "filetransfer_transfer"} ->
                LET s1 == [s EXCEPT !.m_pTransferSocket = NoSocket]
                    didExist == s.localFile >= 0
                    openfail == Call(Log(s1, "openfail"),
                                     <<K("ResetOperation", FZ_REPLY_ERROR),
                                       K("SetRet", FZ_REPLY_ERROR)>>)
                IN  IF pData.download /\ pData.resume
                    THEN IF ~didExist \/ ~s.env.ioOk THEN openfail
                         ELSE FileTransferSendResume(
                                  SetTop(s1, [pData EXCEPT !.fileDidExist = didExist,
                                                           !.opened = TRUE,
                                                           !.localFileSize = s.localFile]))
                    ELSE IF pData.download
                    THEN IF ~s.env.ioOk THEN openfail
                         ELSE FileTransferSendStart(
                                  [SetTop(s1, [pData EXCEPT !.fileDidExist = didExist,
                                                            !.created = ~didExist,
                                                            !.opened = TRUE,
                                                            !.localFileSize = 0,
                                                            !.resumeOffset = 0])
                                   EXCEPT !.localFile = 0])
                    ELSE IF ~didExist \/ ~s.env.ioOk THEN openfail
                         ELSE FileTransferSendUpload(
                                  SetTop(s1, [pData EXCEPT !.opened = TRUE]))
          [] st = "filetransfer_mfmt" ->
                Call(s, <<K("SendCommand", "MFMT"), K("RetFromSend", {})>>)
          [] OTHER ->
                Call(s, <<K("ResetOperation", FZ_REPLY_ERROR), K("SetRet", FZ_REPLY_ERROR)>>)

\* The request a reply of the user answers.
RequestId(action) ==
    IF action \in {"password", "nopassword"} THEN "reqId_interactiveLogin"
    ELSE "reqId_fileexists"

\* CControlSocket::SetFileExistsAction: overwrite goes on, resume goes on to resume,
\* skip ends the transfer.
SetFileExistsAction(s, action) ==
    IF action = "skip" THEN Call(Log(s, "async"), <<K("ResetOperation", FZ_REPLY_OK)>>)
    ELSE Call(Log(SetTop(s, [Top(s) EXCEPT !.resume = (action = "resume")]), "async"),
              <<K("SendNextCommand", {})>>)

\* SetAsyncRequestReply for the answer to a file-exists request and to an
\* interactive-login request.
SetAsyncRequestReply(s, action) ==
    IF s.m_pCurOpData # <<>> /\ ~Top(s).waitForAsyncRequest THEN Log(s, "async_ignored")
    ELSE
    LET s1 == IF s.m_pCurOpData # <<>>
              THEN SetTop(s, [Top(s) EXCEPT !.waitForAsyncRequest = FALSE])
              ELSE s
    IN  IF RequestId(action) = "reqId_fileexists"
        THEN IF s1.m_pCurOpData = <<>> \/ Top(s1).opId # "transfer"
             THEN Log(s1, "async_ignored")
             ELSE SetFileExistsAction(s1, action)
        ELSE IF s1.m_pCurOpData = <<>> \/ Top(s1).opId # "connect"
             THEN Log(s1, "async_ignored")
             ELSE IF action = "nopassword"
                  THEN Call(Log(s1, "login_cancelled"),
                            <<K("ResetOperation", FZ_REPLY_CANCELED)>>)
                  ELSE Call(Log(SetTop(s1, [Top(s1) EXCEPT !.gotPassword = TRUE]), "async"),
                            <<K("SendNextCommand", {})>>)

----------------------------------------------------------------------------
(* Dispatch to the op on top of the stack: m_pCurOpData->Send(),           *)
(* ->ParseResponse(), ->SubcommandResult().                                 *)

----------------------------------------------------------------------------
(* Delete, RemoveDir, Rename and Chmod: a change of directory, then the commands of   *)
(* the op.  A path is its absolute string; the caches and the directory listing       *)
(* notifications are left out.                                                        *)

\* CServerPath::FormatFilename: the name alone, or the name with its path.
FormatFilename(path, file, omitPath) ==
    IF omitPath THEN file
    ELSE IF path = "/" THEN path \o file
    ELSE path \o "/" \o file

\* "if (!res) { ResetOperation(FZ_REPLY_ERROR); return FZ_REPLY_ERROR; }
\*  return FZ_REPLY_WOULDBLOCK;"
ResetFromSend(s) ==
    IF s.ok THEN Ret(s, FZ_REPLY_WOULDBLOCK)
    ELSE Call(s, <<K("ResetOperation", FZ_REPLY_ERROR), K("SetRet", FZ_REPLY_ERROR)>>)

\* Delete
Delete(s, path, files, epoch) ==
    Ret(ChangeDir(Push(s, [Frame("del", "", epoch) EXCEPT !.path = path, !.files = files,
                                                         !.queued = files,
                                                         !.omitPath = TRUE])),
        FZ_REPLY_CONTINUE)

DeleteSubcommandResult(s, prevResult) ==
    Call(IF prevResult # FZ_REPLY_OK THEN SetTop(s, [Top(s) EXCEPT !.omitPath = FALSE]) ELSE s,
         <<K("SendNextCommand", {})>>)

DeleteSend(s) ==
    Call(s, <<K("SendCommand",
                "DELE " \o FormatFilename(Top(s).path, Head(Top(s).files), Top(s).omitPath)),
              K("RetFromSend", {})>>)

\* A variant of DeleteParseResponse that ends the op with the first failed reply.
DeleteParseResponseStops(s) ==
    LET code == GetReplyCode(s)
    IN  IF code # 2 /\ code # 3 THEN Call(s, <<K("ResetOperation", FZ_REPLY_ERROR)>>)
        ELSE IF Tail(Top(s).files) # <<>>
        THEN Call(SetTop(s, [Top(s) EXCEPT !.files = Tail(@)]), <<K("SendNextCommand", {})>>)
        ELSE Call(SetTop(s, [Top(s) EXCEPT !.files = Tail(@)]),
                  <<K("ResetOperation", FZ_REPLY_OK)>>)

DeleteParseResponse(s) ==
    LET code == GetReplyCode(s)
        s1 == SetTop(s, [Top(s) EXCEPT
                           !.m_deleteFailed = IF code # 2 /\ code # 3 THEN TRUE ELSE @,
                           !.files = Tail(@)])
    IN  IF Top(s1).files # <<>> THEN Call(s1, <<K("SendNextCommand", {})>>)
        ELSE Call(s1, <<K("ResetOperation", IF Top(s1).m_deleteFailed THEN FZ_REPLY_ERROR
                                            ELSE FZ_REPLY_OK)>>)

\* RemoveDir
RemoveDir(s, path, subDir, epoch) ==
    Ret(ChangeDir(Push(s, [Frame("removedir", "", epoch) EXCEPT
                             !.path = path, !.subDir = subDir, !.omitPath = TRUE,
                             !.fullPath = FormatFilename(path, subDir, FALSE)])),
        FZ_REPLY_CONTINUE)

RemoveDirSubcommandResult(s, prevResult) ==
    Call(IF prevResult # FZ_REPLY_OK THEN SetTop(s, [Top(s) EXCEPT !.omitPath = FALSE]) ELSE s,
         <<K("SendNextCommand", {})>>)

RemoveDirSend(s) ==
    Call(s, <<K("SendCommand", "RMD " \o (IF Top(s).omitPath THEN Top(s).subDir
                                          ELSE Top(s).fullPath)),
              K("RetFromSend", {})>>)

RemoveDirParseResponse(s) ==
    LET code == GetReplyCode(s)
    IN  IF code # 2 /\ code # 3
        THEN Call(s, <<K("ResetOperation", FZ_REPLY_ERROR), K("SetRet", FZ_REPLY_ERROR)>>)
        ELSE Call(s, <<K("ResetOperation", FZ_REPLY_OK)>>)

\* Rename
Rename(s, fromPath, fromFile, toPath, toFile, epoch) ==
    Ret(ChangeDir(Push(s, [Frame("rename", "rename_rnfrom", epoch) EXCEPT
                             !.path = fromPath, !.file = fromFile,
                             !.toPath = toPath, !.toFile = toFile])),
        FZ_REPLY_CONTINUE)

RenameParseResponse(s) ==
    LET code == GetReplyCode(s)
    IN  IF code # 2 /\ code # 3
        THEN Call(s, <<K("ResetOperation", FZ_REPLY_ERROR), K("SetRet", FZ_REPLY_ERROR)>>)
        ELSE IF Top(s).opState = "rename_rnfrom"
        THEN Call(SetOpState(s, "rename_rnto"), <<K("SendNextCommand", {})>>)
        ELSE Call(s, <<K("ResetOperation", FZ_REPLY_OK), K("SetRet", FZ_REPLY_OK)>>)

RenameSubcommandResult(s, prevResult) ==
    Call(IF prevResult # FZ_REPLY_OK THEN SetTop(s, [Top(s) EXCEPT !.m_useAbsolute = TRUE])
         ELSE s,
         <<K("SendNextCommand", {})>>)

\* A variant of RenameTo that omits the path whenever the CWD has succeeded.
RenameToBare(pData) == FormatFilename(pData.toPath, pData.toFile, ~pData.m_useAbsolute)

\* The name RNTO is sent with.
RenameTo(pData) ==
    FormatFilename(pData.toPath, pData.toFile,
                   ~pData.m_useAbsolute /\ pData.path = pData.toPath)

RenameSend(s) ==
    CASE Top(s).opState = "rename_rnfrom" ->
            Call(s, <<K("SendCommand",
                        "RNFR " \o FormatFilename(Top(s).path, Top(s).file,
                                                  ~Top(s).m_useAbsolute)),
                      K("ResetFromSend", {})>>)
      [] Top(s).opState = "rename_rnto" ->
            Call(s, <<K("SendCommand", "RNTO " \o RenameTo(Top(s))),
                      K("ResetFromSend", {})>>)
      [] OTHER ->
            Call(s, <<K("ResetOperation", FZ_REPLY_INTERNALERROR),
                      K("SetRet", FZ_REPLY_ERROR)>>)

\* Chmod
Chmod(s, path, file, epoch) ==
    Ret(ChangeDir(Push(s, [Frame("chmod", "chmod_chmod", epoch) EXCEPT
                             !.path = path, !.file = file])),
        FZ_REPLY_CONTINUE)

ChmodParseResponse(s) ==
    LET code == GetReplyCode(s)
    IN  IF code # 2 /\ code # 3 THEN Ret(s, FZ_REPLY_ERROR) ELSE Ret(s, FZ_REPLY_OK)

ChmodSubcommandResult(s, prevResult) ==
    Call(IF prevResult # FZ_REPLY_OK THEN SetTop(s, [Top(s) EXCEPT !.m_useAbsolute = TRUE])
         ELSE s,
         <<K("SendNextCommand", {})>>)

ChmodSend(s) ==
    IF Top(s).opState = "chmod_chmod"
    THEN Call(s, <<K("SendCommand",
                     "SITE CHMOD 644 " \o FormatFilename(Top(s).path, Top(s).file,
                                                         ~Top(s).m_useAbsolute)),
                   K("ResetFromSend", {})>>)
    ELSE Call(s, <<K("ResetOperation", FZ_REPLY_INTERNALERROR), K("SetRet", FZ_REPLY_ERROR)>>)


OpSend(s) ==
    CASE Top(s).opId = "connect" -> LogonSend(s)
      [] Top(s).opId = "raw" -> RawCommandSend(s)
      [] Top(s).opId = "cwd" -> CwdSend(s)
      [] Top(s).opId = "rawtransfer" -> RawTransferSend(s)
      [] Top(s).opId = "transfer" -> FileTransferSend(s)
      [] Top(s).opId = "del" -> DeleteSend(s)
      [] Top(s).opId = "removedir" -> RemoveDirSend(s)
      [] Top(s).opId = "rename" -> RenameSend(s)
      [] Top(s).opId = "chmod" -> ChmodSend(s)

OpParseResponse(s) ==
    CASE Top(s).opId = "connect" -> LogonParseResponse(s)
      [] Top(s).opId = "raw" -> RawCommandParseResponse(s)
      [] Top(s).opId = "cwd" -> CwdParseResponse(s)
      [] Top(s).opId = "rawtransfer" -> RawTransferParseResponse(s)
      [] Top(s).opId = "transfer" -> FileTransferParseResponse(s)
      [] Top(s).opId = "del" -> DeleteParseResponse(s)
      [] Top(s).opId = "removedir" -> RemoveDirParseResponse(s)
      [] Top(s).opId = "rename" -> RenameParseResponse(s)
      [] Top(s).opId = "chmod" -> ChmodParseResponse(s)

OpSubcommandResult(s, prevResult) ==
    CASE Top(s).opId = "transfer" -> FileTransferSubcommandResult(s, prevResult)
      [] Top(s).opId = "del" -> DeleteSubcommandResult(s, prevResult)
      [] Top(s).opId = "removedir" -> RemoveDirSubcommandResult(s, prevResult)
      [] Top(s).opId = "rename" -> RenameSubcommandResult(s, prevResult)
      [] Top(s).opId = "chmod" -> ChmodSubcommandResult(s, prevResult)
      [] OTHER -> Ret(s, FZ_REPLY_INTERNALERROR)

ParseSubcommandResult(s, prevResult) ==
    IF s.m_pCurOpData = <<>>
    THEN Call(s, <<K("ResetOperation", FZ_REPLY_ERROR), K("SetRet", FZ_REPLY_ERROR)>>)
    ELSE Call(s, <<K("OpSubcommandResult", prevResult), K("ParseSubcommandResultEnd", {})>>)

ParseSubcommandResultEnd(s) ==
    IF s.ret = FZ_REPLY_WOULDBLOCK THEN s
    ELSE IF s.ret = FZ_REPLY_CONTINUE THEN Call(s, <<K("SendNextCommand", {})>>)
    ELSE Call(s, <<K("ResetOperation", s.ret)>>)

\* CControlSocket::ResetOperation: pop the top frame; a parent gets the result of its
\* sub-op when that is OK, ERROR or CRITICALERROR and is reset with it otherwise; with
\* no parent the result goes to the engine.
BaseResetOperation(s, nErrorCode) ==
    IF Len(s.m_pCurOpData) > 1
    THEN LET s1 == Log([s EXCEPT !.m_pCurOpData = Tail(@),
                                 !.pops = Append(@, [frame |-> Top(s), code |-> nErrorCode,
                                                     socket |-> s.m_pTransferSocket.exists])],
                        "pop")
         IN  IF nErrorCode \in {FZ_REPLY_OK, FZ_REPLY_ERROR, FZ_REPLY_CRITICALERROR}
             THEN Call(s1, <<K("ParseSubcommandResult", nErrorCode)>>)
             ELSE Call(s1, <<K("ResetOperation", nErrorCode)>>)
    ELSE LET s1 == IF s.m_pCurOpData # <<>>
                   THEN Log([s EXCEPT !.m_pCurOpData = <<>>,
                                      !.pops = Append(@, [frame |-> Top(s),
                                                          code |-> nErrorCode,
                                                          socket |->
                                                              s.m_pTransferSocket.exists])],
                            "pop")
                   ELSE s
         IN  Ret([Log(s1, "result") EXCEPT !.results = Append(@, nErrorCode)], nErrorCode)

\* A variant of TransferResetCode that goes on with the error code it was given.
TransferResetCodeAsGiven(s, nErrorCode) == nErrorCode

\* ResetOperation, for a file transfer on top of the stack: the error code it goes on
\* with.
TransferResetCode(s, nErrorCode) ==
    LET pData == Top(s)
        c1 == IF pData.transferEndReason = "transfer_failure_critical"
              THEN nErrorCode \cup FZ_REPLY_CRITICALERROR \cup FZ_REPLY_WRITEFAILED
              ELSE nErrorCode
    IN  IF ~pData.tranferCommandSent THEN nErrorCode
        ELSE IF pData.transferEndReason # "transfer_command_failure_immediate"
                \/ GetReplyCode(s) # 5
             THEN c1
             ELSE IF c1 = FZ_REPLY_ERROR THEN c1 \cup FZ_REPLY_CRITICALERROR ELSE c1

\* ... and the frame it leaves.
TransferResetFrame(s, nErrorCode) ==
    LET pData == [Top(s) EXCEPT !.sizeAtReset = s.localFile]
    IN  IF pData.tranferCommandSent
           /\ (pData.transferEndReason # "transfer_command_failure_immediate"
               \/ GetReplyCode(s) # 5)
        THEN [pData EXCEPT !.transferInitiated = TRUE]
        ELSE pData

\* A variant of RemoveEmptyFile that does not ask whether the file did exist.
RemoveEmptyFileAlways(s, code) ==
    IF code # FZ_REPLY_OK /\ Top(s).download /\ s.localFile = 0
    THEN [Log(s, "remove_empty_file") EXCEPT !.localFile = -1]
    ELSE s

\* ... and the cleanup: a download that has failed removes the local file if the file
\* did not exist before and is a regular file of size 0.
RemoveEmptyFile(s, code) ==
    IF code # FZ_REPLY_OK /\ Top(s).download /\ ~Top(s).fileDidExist /\ s.localFile = 0
    THEN [Log(s, "remove_empty_file") EXCEPT !.localFile = -1]
    ELSE s

\* ResetOperation, for a raw transfer on top of the stack that has failed: the end
\* reason of the transfer.
RawTransferResetReason(s, nErrorCode) ==
    IF Old(s).transferEndReason # "successful" THEN Old(s).transferEndReason
    ELSE IF FZ_REPLY_TIMEOUT \subseteq nErrorCode THEN "timeout"
    ELSE IF ~Old(s).tranferCommandSent THEN "pre_transfer_command_failure"
    ELSE "failure"

\* A variant of ResetTransferSocket that leaves the data socket as it is.
ResetTransferSocketNot(s) == s

\* "m_pTransferSocket.reset();"
ResetTransferSocket(s) == [s EXCEPT !.m_pTransferSocket = NoSocket]

ResetOperation(s, nErrorCode) ==
    LET s1 == [ResetTransferSocket(s) EXCEPT
                        !.m_pIPResolver = "none",
                        !.m_repliesToSkip = RepliesToSkipOnReset(s.m_pendingReplies),
                        !.owed = s.welcome + s.sentLessFinal + s.nDropped,
                        !.ev = Append(@, "reset")]
        isTransfer == s1.m_pCurOpData # <<>> /\ Top(s1).opId = "transfer"
        code == IF isTransfer THEN TransferResetCode(s1, nErrorCode) ELSE nErrorCode
        s2 == IF isTransfer
              THEN RemoveEmptyFile(SetTop(s1, TransferResetFrame(s1, nErrorCode)), code)
              ELSE s1
        s2b == IF s2.m_pCurOpData # <<>> /\ Top(s2).opId = "rawtransfer"
               THEN SetTop(s2, [Top(s2) EXCEPT !.reported = s.m_pTransferSocket.reason])
               ELSE s2
        s3 == IF s2b.m_pCurOpData # <<>> /\ Top(s2b).opId = "rawtransfer" /\ code # FZ_REPLY_OK
              THEN SetOld(s2b, [Old(s2b) EXCEPT
                                  !.transferEndReason = RawTransferResetReason(s2b, code)])
              ELSE s2b
        s4 == IF s3.m_pCurOpData # <<>> /\ ~(FZ_REPLY_DISCONNECTED \subseteq code)
              THEN StartKeepaliveTimer(s3)
              ELSE [s3 EXCEPT !.m_idleTimer = FALSE]
    IN  BaseResetOperation(s4, code)

\* History of a call of the top op's Send.  "resend": the op awaits the reply to a
\* command it has sent, and the handler has given it no reply.
SendEntered(s) ==
    IF Top(s).awaiting /\ s.lastDeliv = NoDeliv THEN Log(Log(s, "opsend"), "resend")
    ELSE Log(s, "opsend")

\* A variant of SendLoop without the test of waitForAsyncRequest.
SendLoopNoWait(s) ==
    IF s.m_pCurOpData = <<>> THEN Ret(s, FZ_REPLY_OK)
    ELSE IF s.m_repliesToSkip # 0 THEN Ret(Log(s, "blocked"), FZ_REPLY_WOULDBLOCK)
    ELSE Call(SendEntered(s), <<K("OpSend", {}), K("SendLoopEnd", {})>>)

\* The loop of SendNextCommand, from its test "while (m_pCurOpData)".
SendLoop(s) ==
    IF s.m_pCurOpData = <<>> THEN Ret(s, FZ_REPLY_OK)
    ELSE IF Top(s).waitForAsyncRequest THEN Ret(s, FZ_REPLY_WOULDBLOCK)
    ELSE IF s.m_repliesToSkip # 0 THEN Ret(Log(s, "blocked"), FZ_REPLY_WOULDBLOCK)
    ELSE Call(SendEntered(s), <<K("OpSend", {}), K("SendLoopEnd", {})>>)

\* What the loop does with the value Send returned.
SendLoopEnd(s) ==
    LET res == s.ret
    IN  IF res = FZ_REPLY_CONTINUE THEN Call(s, <<K("SendLoop", {})>>)
        ELSE IF res = FZ_REPLY_OK THEN Call(s, <<K("ResetOperation", res)>>)
        ELSE IF FZ_REPLY_DISCONNECTED \subseteq res THEN Call(s, <<K("DoClose", res)>>)
        ELSE IF "ERROR" \in res
             THEN Call(s, <<K("ResetOperation", res), K("SendLoop", {})>>)
        ELSE IF res = FZ_REPLY_WOULDBLOCK THEN s
        ELSE Call(s, <<K("ResetOperation", FZ_REPLY_INTERNALERROR)>>)

SendNextCommand(s) ==
    IF s.m_pCurOpData = <<>>
    THEN Call(s, <<K("ResetOperation", FZ_REPLY_ERROR), K("SetRet", FZ_REPLY_ERROR)>>)
    ELSE SendLoop(s)

----------------------------------------------------------------------------
(* ParseResponse and ParseLine *)

\* A variant of IsFinalReply that takes every reply for a final reply.
IsFinalReplyAny(resp) == TRUE

\* A reply whose first character is not '1' is a final reply.
IsFinalReply(resp) == resp[1] # "1"

\* ParseResponse, after the op on top of the stack has parsed the reply.  When the op
\* has reset the operation itself and no op is left, "m_pCurOpData->opId" reads
\* through a null pointer: s.ub is what the build makes of it.
ParseResponseEnd(s) ==
    LET res == s.ret
    IN  IF res = FZ_REPLY_OK THEN Call(s, <<K("ResetOperation", FZ_REPLY_OK)>>)
        ELSE IF res = FZ_REPLY_CONTINUE THEN Call(s, <<K("SendNextCommand", {})>>)
        ELSE IF "ERROR" \in res
             THEN IF s.m_pCurOpData = <<>> /\ s.ub = "crash"
                  THEN [Log(s, "crash") EXCEPT !.crashed = TRUE, !.k = <<>>]
                  ELSE IF (s.m_pCurOpData # <<>> /\ Top(s).opId = "connect")
                          \/ (s.m_pCurOpData = <<>> /\ s.ub = "connect")
                       THEN Call(s, <<K("DoClose", res \cup FZ_REPLY_DISCONNECTED)>>)
                       ELSE IF FZ_REPLY_DISCONNECTED \subseteq res
                            THEN Call(s, <<K("DoClose", res)>>)
                            ELSE Call(s, <<K("ResetOperation", res)>>)
        ELSE s

\* History of the reply in m_Response, kept as ParseResponse takes it up.  A reply is
\* counted as not preliminary by its first character, whatever the code does with it.
Received(s) ==
    LET non1xx == s.m_Response[1] # "1"
        s0 == IF s.replyOwner = 0 THEN Log(s, "keepalive_reply") ELSE s
        s1 == IF s.m_pendingReplies = 0 THEN Log(s0, "nothing_pending") ELSE s0
        s2 == IF non1xx /\ s.owed > 0 THEN Log(s1, "owed_reply") ELSE s1
    IN  [s2 EXCEPT !.sentLessFinal = IF non1xx THEN @ - 1 ELSE @,
                   !.nDropped = IF non1xx /\ s.m_pendingReplies = 0 THEN @ + 1 ELSE @,
                   !.owed = IF non1xx /\ @ > 0 THEN @ - 1 ELSE @]

\* History of the reply in m_Response, kept as the op on top of the stack is given it.
Delivered(s) ==
    LET s0 == [s EXCEPT !.lastDeliv = <<s.replyOwner, Top(s).epoch, s.replyCmd>>]
        n == Len(s.m_pCurOpData)
        s0a == IF s.m_pCurOpData[n].opId \in TracedOps
               THEN [s0 EXCEPT !.m_pCurOpData[n].replies =
                                   Append(@, [cmd |-> s.replyCmd, code |-> s.m_Response[1]])]
               ELSE s0
        s1 == IF s.m_Response[1] # "1"
              THEN SetTop(s0a, [Top(s0a) EXCEPT !.awaiting = FALSE])
              ELSE s0a
    IN  IF Top(s).opId = "rawtransfer" /\ s.replyCmd \in DataCommands
        THEN IF s.m_Response[1] # "1"
             THEN SetTop(s1, [Top(s1) EXCEPT
                                !.finalSeen = IF s.m_Response[1] \in {"2", "3"} THEN "good"
                                              ELSE "bad",
                                !.seen = IF Top(s1).endSeen = "none" THEN <<"final">>
                                         ELSE Append(@, "final")])
             ELSE SetTop(s1, [Top(s1) EXCEPT !.seen = Append(@, "prelim")])
        ELSE s1

\* A variant of SkippedAll that leaves the op on the stack as it is.
SkippedAllNoResume(s) ==
    IF s.m_pCurOpData = <<>> THEN StartKeepaliveTimer(s) ELSE s

\* ParseResponse when the reply it skipped has brought m_repliesToSkip to zero.
SkippedAll(s) ==
    IF s.m_pCurOpData = <<>> THEN StartKeepaliveTimer(s)
    ELSE IF s.m_pendingReplies = 0 THEN Call(s, <<K("SendNextCommand", {})>>)
    ELSE s

ParseResponse(s) ==
    IF s.m_Response = <<>> THEN s
    ELSE
    LET final == IsFinalReply(s.m_Response)
        s0 == Received(Log(s, "parse"))
    IN  IF final /\ s0.m_pendingReplies <= 0 THEN Log(s0, "drop_nopending")
        ELSE
        LET s1 == IF final THEN [s0 EXCEPT !.m_pendingReplies = @ - 1] ELSE s0
        IN  IF s1.m_repliesToSkip # 0
            THEN LET s2 == Log(IF final THEN [s1 EXCEPT !.m_repliesToSkip = @ - 1] ELSE s1,
                               "skipped")
                 IN  IF s2.m_repliesToSkip = 0 THEN SkippedAll(s2) ELSE s2
            ELSE IF s1.m_pCurOpData = <<>> THEN Log(s1, "no_op")
            ELSE Call(Delivered(Log(s1, "to_op")),
                      <<K("OpParseResponse", {}), K("ParseResponseEnd", {})>>)

\* The end of a multi-line reply: the first four characters are the code and a space.
IsMultilineEnd(line, code) == SubSeq(line, 1, 4) = code

\* str_tolower_ascii(line).substr(0, 3) == "ssh"
StartsWithSsh(line) ==
    /\ Len(line) >= 3
    /\ line[1] \in {"s", "S"} /\ line[2] \in {"s", "S"} /\ line[3] \in {"h", "H"}

\* "m_Response.clear()" after ParseResponse, "m_MultilineResponseLines.clear()" too
\* at the end of a multi-line reply.
ClearResponse(s, multi) ==
    [s EXCEPT !.m_Response = <<>>,
              !.m_MultilineResponseLines = IF multi THEN <<>> ELSE @]

\* ParseLine after the part that looks at a logon op: the check for multi-line replies.
ParseLineReply(s, line) ==
    IF Len(line) > 3
    THEN IF s.m_MultilineResponseCode # <<>>
         THEN IF IsMultilineEnd(line, s.m_MultilineResponseCode)
              THEN Call([Log(s, "multi_close") EXCEPT
                           !.m_MultilineResponseCode = <<>>, !.m_Response = line],
                        <<K("ParseResponse", {}), K("ClearResponse", TRUE)>>)
              ELSE [Log(s, "multi_add") EXCEPT !.m_MultilineResponseLines = Append(@, line)]
         ELSE IF line[4] = "-"
         THEN [Log(s, "multi_open") EXCEPT
                 !.m_MultilineResponseCode = SubSeq(line, 1, 3) \o <<" ">>,
                 !.m_MultilineResponseLines = Append(@, line)]
         ELSE Call([Log(s, "single") EXCEPT !.m_Response = line],
                   <<K("ParseResponse", {}), K("ClearResponse", FALSE)>>)
    ELSE Log(s, "line_ignored")

\* fz::trim: the line without the white space at its ends.
RECURSIVE Trim(_)
Trim(line) ==
    IF line = <<>> THEN line
    ELSE IF Head(line) \in WhiteSpace THEN Trim(Tail(line))
    ELSE IF line[Len(line)] \in WhiteSpace THEN Trim(SubSeq(line, 1, Len(line) - 1))
    ELSE line

\* fz::str_toupper_ascii
ToUpperAscii(line) ==
    [i \in 1..Len(line) |->
        IF \E k \in 1..Len(LowerCase) : LowerCase[k] = line[i]
        THEN UpperCase[CHOOSE k \in 1..Len(LowerCase) : LowerCase[k] = line[i]]
        ELSE line[i]]

HasFeature(line, feature) ==
    \/ line = feature
    \/ /\ Len(line) > Len(feature)
       /\ SubSeq(line, 1, Len(feature)) = feature
       /\ line[Len(feature) + 1] = " "

\* CServerCapabilities::SetCapability(currentServer_, cap, yes)
SetYes(s, cap) == Log([s EXCEPT !.caps[cap] = "yes"], "feat")

\* "SetCapability(mlsd_command, yes, facts); SetCapability(timezone_offset, no);"
SetMlsd(s, facts) ==
    Log([s EXCEPT !.caps.mlsd_command = "yes", !.caps.facts = facts,
                  !.caps.timezone_offset = "no"], "feat")

\* A variant of ParseFeatMlsd in which the facts of the MLSD line override.
ParseFeatMlsdOverrides(s, rest) == SetMlsd(s, rest)

\* ParseFeat, the line has the feature MLSD; rest: "line.substr(5)" if the line is
\* longer than 5, else empty.
ParseFeatMlsd(s, rest) ==
    SetMlsd(s, IF s.caps.mlsd_command # "yes" \/ s.caps.facts = <<>> THEN rest
               ELSE s.caps.facts)

\* ParseFeat, the line has the feature MLST.
ParseFeatMlst(s, rest) ==
    SetMlsd(s, IF rest # <<>> THEN rest
               ELSE IF s.caps.mlsd_command # "yes" THEN <<>>
               ELSE s.caps.facts)

ParseFeat(s, raw) ==
    LET line == Trim(raw)
        up == ToUpperAscii(line)
        rest == IF Len(line) > 5 THEN SubSeq(line, 6, Len(line)) ELSE <<>>
    IN  IF HasFeature(up, <<"U", "T", "F", "8">>) THEN SetYes(s, "utf8_command")
        ELSE IF HasFeature(up, <<"C", "L", "N", "T">>) THEN SetYes(s, "clnt_command")
        ELSE IF HasFeature(up, <<"M", "L", "S", "D">>) THEN ParseFeatMlsd(s, rest)
        ELSE IF HasFeature(up, <<"M", "L", "S", "T">>) THEN ParseFeatMlst(s, rest)
        ELSE IF HasFeature(up, <<"M", "O", "D", "E", " ", "Z">>)
        THEN SetYes(s, "mode_z_support")
        ELSE IF HasFeature(up, <<"M", "F", "M", "T">>) THEN SetYes(s, "mfmt_command")
        ELSE IF HasFeature(up, <<"M", "D", "T", "M">>) THEN SetYes(s, "mdtm_command")
        ELSE IF HasFeature(up, <<"S", "I", "Z", "E">>) THEN SetYes(s, "size_command")
        ELSE IF HasFeature(up, <<"T", "V", "F", "S">>) THEN SetYes(s, "tvfs_support")
        ELSE IF HasFeature(up, <<"R", "E", "S", "T", " ", "S", "T", "R", "E", "A", "M">>)
        THEN SetYes(s, "rest_stream")
        ELSE IF HasFeature(up, <<"E", "P", "S", "V">>) THEN SetYes(s, "epsv_command")
        ELSE s

\* A variant of ParseLine that tests every line of the welcome message for "ssh".
ParseLineEveryWelcome(s, line) ==
    IF s.m_pCurOpData # <<>> /\ Top(s).opId = "connect" /\ Top(s).opState = "LOGON_WELCOME"
    THEN IF StartsWithSsh(line)
         THEN Call(Log(s, "ssh"), <<K("DoClose", FZ_REPLY_CRITICALERROR)>>)
         ELSE ParseLineReply(SetTop(s, [Top(s) EXCEPT !.gotFirstWelcomeLine = TRUE]), line)
    ELSE ParseLineReply(s, line)

ParseLine(s, line) ==
    IF s.m_pCurOpData # <<>> /\ Top(s).opId = "connect" /\ Top(s).opState = "LOGON_FEAT"
    THEN ParseLineReply(ParseFeat(s, line), line)
    ELSE
    IF s.m_pCurOpData # <<>> /\ Top(s).opId = "connect" /\ Top(s).opState = "LOGON_WELCOME"
       /\ ~Top(s).gotFirstWelcomeLine
    THEN IF StartsWithSsh(line)
         THEN Call(Log(s, "ssh"), <<K("DoClose", FZ_REPLY_CRITICALERROR)>>)
         ELSE ParseLineReply(SetTop(s, [Top(s) EXCEPT !.gotFirstWelcomeLine = TRUE]), line)
    ELSE ParseLineReply(s, line)

----------------------------------------------------------------------------
(* OnReceive: the bytes read are added to the receive buffer, the buffer is cut into   *)
(* lines and what is left of it is moved to its front.                                 *)

NUL == 0
LF == 10
CR == 13

\* A variant of IsDelimiter that does not take NUL for the end of a line.
IsDelimiterCrLf(b) == b = CR \/ b = LF

\* "p == '\r' || p == '\n' || p == 0"
IsDelimiter(b) == b = CR \/ b = LF \/ b = NUL

\* The bytes a server sends in the model, and the characters they stand for.
Bytes == {NUL, LF, CR, 104, 115}
CharOf(b) == CASE b = 104 -> "h" [] b = 115 -> "s"

\* CControlSocket::ConvToLocal of a zero-terminated buffer: the characters up to the
\* first NUL.  All the bytes of the model convert.
ConvToLocal(buffer) ==
    LET zero == CHOOSE i \in 1..Len(buffer) :
                    buffer[i] = NUL /\ \A j \in 1..(i - 1) : buffer[j] # NUL
    IN  [i \in 1..(zero - 1) |-> CharOf(buffer[i])]

\* "if (m_bufferLen > MAXLINELEN) m_bufferLen = MAXLINELEN;"
Truncate(buffer) ==
    IF Len(buffer) > MAXLINELEN THEN SubSeq(buffer, 1, MAXLINELEN) ELSE buffer

\* The loop over the buffer, at byte i of a line that begins at byte start (counted
\* from 1), and after the loop the move of what is left.
OnReceiveScan(s, start, i) ==
    LET buffer == s.m_receiveBuffer
    IN  IF i > Len(buffer)
        THEN [s EXCEPT !.m_receiveBuffer = Truncate(SubSeq(buffer, start, Len(buffer)))]
        ELSE IF IsDelimiter(buffer[i])
        THEN IF i - start = 0
             THEN Call(s, <<K("OnReceiveScan", <<start + 1, i + 1>>)>>)
             ELSE LET s1 == [s EXCEPT !.m_receiveBuffer[i] = NUL]
                      line == ConvToLocal(SubSeq(s1.m_receiveBuffer, start, i))
                  IN  Call([s1 EXCEPT !.parsed = Append(@, line)],
                           <<K("ParseLine", line), K("OnReceiveAfterLine", i + 1)>>)
        ELSE Call(s, <<K("OnReceiveScan", <<start, i + 1>>)>>)

\* "Abort if connection got closed"
OnReceiveAfterLine(s, i) ==
    IF ~s.connected THEN s ELSE Call(s, <<K("OnReceiveScan", <<i, i>>)>>)

\* One turn of the loop of OnReceive with a read that gives the bytes of chunk.
OnReceive(s, chunk) ==
    Call([s EXCEPT !.m_receiveBuffer = @ \o chunk], <<K("OnReceiveScan", <<1, 1>>)>>)

----------------------------------------------------------------------------
(* OnConnect, OnTimer *)

WelcomeExpected(s) ==
    [s EXCEPT !.m_pendingReplies = 1, !.m_repliesToSkip = 0,
              !.wire = <<[cmd |-> "welcome", owner |-> Owner(s)]>>,
              !.sentLessFinal = 0, !.nDropped = 0, !.welcome = 1, !.owed = 0,
              !.connecting = "no"]

\* tlsInit, handshake: the results of CTlsSocket::Init and CTlsSocket::Handshake.
OnConnect(s, tlsInit, handshake) ==
    LET s1 == [s EXCEPT !.m_lastTypeBinary = -1]
    IN  IF s1.protocol = "FTPS"
        THEN IF ~s1.m_pTlsSocket
             THEN LET s2 == [s1 EXCEPT !.m_pTlsSocket = TRUE]
                  IN  IF ~tlsInit THEN Call(s2, <<K("DoClose", FZ_REPLY_OK)>>)
                      ELSE IF handshake = FZ_REPLY_ERROR
                           THEN Call(s2, <<K("DoClose", FZ_REPLY_OK)>>)
                           ELSE [s2 EXCEPT !.connecting = "tls"]
             ELSE WelcomeExpected(s1)
        ELSE IF s1.protocol \in {"FTPES", "FTP"} /\ s1.m_pTlsSocket
        THEN Call([s1 EXCEPT !.connecting = "no"], <<K("SendNextCommand", {})>>)
        ELSE WelcomeExpected(s1)

\* A variant of KeepaliveCommand that sends the type m_lastTypeBinary does not record.
KeepaliveCommandOtherType(s, i) ==
    IF i = 0 THEN "NOOP"
    ELSE IF i = 1 THEN IF s.m_lastTypeBinary # 0 THEN "TYPE A" ELSE "TYPE I"
    ELSE "PWD"

\* OnTimer for the idle timer; i is the random number drawn.
KeepaliveCommand(s, i) ==
    IF i = 0 THEN "NOOP"
    ELSE IF i = 1 THEN IF s.m_lastTypeBinary # 0 THEN "TYPE I" ELSE "TYPE A"
    ELSE "PWD"

\* A variant of OnTimer that does not look at the counters of replies.
OnTimerNoCounters(s, i) ==
    LET s0 == [s EXCEPT !.m_idleTimer = FALSE]
    IN  IF s0.m_pCurOpData # <<>> THEN s0
        ELSE Call(Log(s0, "keepalive"),
                  <<K("SendCommand", KeepaliveCommand(s0, i)), K("OnTimerEnd", {})>>)

OnTimer(s, i) ==
    LET s0 == [s EXCEPT !.m_idleTimer = FALSE]
    IN  IF s0.m_pCurOpData # <<>> THEN s0
        ELSE IF s0.m_pendingReplies # 0 \/ s0.m_repliesToSkip # 0 THEN s0
        ELSE Call(Log(s0, "keepalive"),
                  <<K("SendCommand", KeepaliveCommand(s0, i)), K("OnTimerEnd", {})>>)

\* A variant of OnTimerEnd that leaves m_repliesToSkip as it is.
OnTimerEndNoSkip(s) == s

\* "if (!SendCommand(cmd)) return; ++m_repliesToSkip;"
OnTimerEnd(s) == IF ~s.ok THEN s ELSE [s EXCEPT !.m_repliesToSkip = @ + 1]

----------------------------------------------------------------------------
(* Run: make the calls of s.k, in order, until none is left. *)

Step(s, c) ==
    CASE c.pc = "SetRet" -> Ret(s, c.a)
      [] c.pc = "SetOk" -> [s EXCEPT !.ok = c.a]
      [] c.pc = "RetFromSend" -> RetFromSend(s)
      [] c.pc = "ResetFromSend" -> ResetFromSend(s)
      [] c.pc = "SendCommand" -> SendCommand(s, c.a)
      [] c.pc = "DoClose" -> DoClose(s, c.a)
      [] c.pc = "DoCloseEnd" -> DoCloseEnd(s)
      [] c.pc = "OpSend" -> OpSend(s)
      [] c.pc = "OpParseResponse" -> OpParseResponse(s)
      [] c.pc = "OpSubcommandResult" -> OpSubcommandResult(s, c.a)
      [] c.pc = "ParseSubcommandResult" -> ParseSubcommandResult(s, c.a)
      [] c.pc = "ParseSubcommandResultEnd" -> ParseSubcommandResultEnd(s)
      [] c.pc = "ResetOperation" -> ResetOperation(s, c.a)
      [] c.pc = "SendLoop" -> SendLoop(s)
      [] c.pc = "SendLoopEnd" -> SendLoopEnd(s)
      [] c.pc = "SendNextCommand" -> SendNextCommand(s)
      [] c.pc = "ParseResponse" -> ParseResponse(s)
      [] c.pc = "ParseResponseEnd" -> ParseResponseEnd(s)
      [] c.pc = "ClearResponse" -> ClearResponse(s, c.a)
      [] c.pc = "ParseLine" -> ParseLine(s, c.a)
      [] c.pc = "OnReceive" -> OnReceive(s, c.a)
      [] c.pc = "OnReceiveScan" -> OnReceiveScan(s, c.a[1], c.a[2])
      [] c.pc = "OnReceiveAfterLine" -> OnReceiveAfterLine(s, c.a)
      [] c.pc = "OnConnect" -> OnConnect(s, c.a[1], c.a[2])
      [] c.pc = "OnTimer" -> OnTimer(s, c.a)
      [] c.pc = "OnTimerEnd" -> OnTimerEnd(s)
      [] c.pc = "TransferEnd" -> TransferEnd(s)
      [] c.pc = "OnExternalIPAddress" -> OnExternalIPAddress(s)
      [] c.pc = "SetAsyncRequestReply" -> SetAsyncRequestReply(s, c.a)

RECURSIVE Run(_)
Run(s) == IF Len(s.k) = 0 THEN s ELSE Run(Step([s EXCEPT !.k = Tail(@)], Head(s.k)))

\* The handler pc, called with a on the state s, run to its end.
Handle(s, pc, a) == Run(Call(s, <<K(pc, a)>>))

----------------------------------------------------------------------------
(* The state after construction. *)

\* The state after construction, with the capabilities earlier sessions have left.
InitTracked(c, type) ==
    /\ connected = FALSE
    /\ connecting = "no"
    /\ protocol = "FTP"
    /\ m_pTlsSocket = FALSE
    /\ m_pendingReplies = 0
    /\ m_repliesToSkip = 0
    /\ m_MultilineResponseCode = <<>>
    /\ m_MultilineResponseLines = <<>>
    /\ m_lastTypeBinary = -1
    /\ m_idleTimer = FALSE
    /\ m_pTransferSocket = NoSocket
    /\ m_pCurOpData = <<>>
    /\ m_receiveBuffer = <<>>
    /\ localFile = -1
    /\ caps = c
    /\ pasvMode = "MODE_PASSIVE"
    /\ preserveTimestamps = TRUE
    /\ srvType = type
    /\ m_pIPResolver = "none"
    /\ ipQueued = 0
    /\ received = <<>>
    /\ parsed = <<>>
    /\ wire = <<>>
    /\ srvMulti = <<>>
    /\ srvCount = 0
    /\ transferEndQueued = 0
    /\ opCount = 0
    /\ nKeepalive = 0
    /\ nCancel = 0
    /\ nExtra = 0
    /\ sentLessFinal = 0
    /\ nDropped = 0
    /\ welcome = 0
    /\ owed = 0
    /\ pops = <<>>
    /\ lastDeliv = NoDeliv
    /\ ev = <<>>
    /\ results = <<>>
    /\ crashed = FALSE

InitWith(c) == InitTracked(c, "untracked")

Init == InitWith(NoCaps)

Protocols == {"FTP", "FTPS"}

\* The password of the server given to Connect: the engine has it, the user is to be
\* asked for it, or it has a character the server's charset cannot encode.
Passwords == {"known", "ask", "bad"}

\* What a build makes of a read through a null pointer: the process crashes, or the
\* value read is Command::connect, or it is something else.
UBOutcomes == {"crash", "connect", "other"}

\* The handlers ask the environment only for an op that looks at it.
EnvFor(s) ==
    IF s.m_pCurOpData # <<>> /\ Top(s).opId \in {"cwd", "transfer", "rawtransfer"}
    THEN Envs ELSE {NoEnv}

\* An op that resets the operation itself leaves a null pointer for ParseResponse.
UBFor(s) ==
    IF s.m_pCurOpData # <<>> /\ Top(s).opId \in {"raw", "transfer", "del", "removedir", "rename"}
    THEN UBOutcomes ELSE {"unasked"}

----------------------------------------------------------------------------
(* Actions: the engine's commands. *)

\* What an action leaves alone besides what its handler sets.
Others == <<srvMulti, srvCount, transferEndQueued, opCount, nKeepalive, nCancel, nExtra,
            received>>

Idle == ~crashed /\ connected /\ connecting = "no" /\ m_pCurOpData = <<>>

\* Connect: a control socket is constructed for the connection, the logon op is pushed
\* and the socket starts to connect.  pws: the passwords the server may have; feats:
\* whether the logon goes on to FEAT; modes: the transfer modes the server may be set to.
ConnectWith(pws, feats, modes) ==
    /\ ~crashed /\ ~connected /\ connecting = "no"
    /\ opCount < MaxOps
    /\ \E p \in Protocols, pw \in pws, ft \in feats, mode \in modes :
         /\ protocol' = p
         /\ pasvMode' = mode
         /\ connected' = TRUE
         /\ connecting' = "tcp"
         /\ m_pCurOpData' = <<[Frame("connect", "LOGON_WELCOME", opCount + 1) EXCEPT
                                  !.password = pw, !.feat = ft]>>
    /\ opCount' = opCount + 1
    /\ m_pTlsSocket' = FALSE
    /\ m_pendingReplies' = 0
    /\ m_repliesToSkip' = 0
    /\ m_MultilineResponseCode' = <<>>
    /\ m_MultilineResponseLines' = <<>>
    /\ m_lastTypeBinary' = -1
    /\ m_idleTimer' = FALSE
    /\ m_pTransferSocket' = NoSocket
    /\ m_pIPResolver' = "none"
    /\ ipQueued' = 0
    /\ m_receiveBuffer' = <<>>
    /\ received' = <<>>
    /\ parsed' = <<>>
    /\ wire' = <<>>
    /\ srvMulti' = <<>>
    /\ srvCount' = 0
    /\ transferEndQueued' = 0
    /\ sentLessFinal' = 0 /\ nDropped' = 0 /\ welcome' = 0 /\ owed' = 0
    /\ ev' = <<"connect">>
    /\ results' = <<>>
    /\ pops' = <<>>
    /\ lastDeliv' = NoDeliv
    /\ srvType' = IF srvType = "untracked" THEN srvType ELSE "A"
    /\ UNCHANGED <<nKeepalive, nCancel, nExtra, crashed, localFile, caps,
                   preserveTimestamps>>

Connect == ConnectWith(Passwords, {FALSE}, {"MODE_PASSIVE"})

SocketConnected ==
    /\ ~crashed /\ connected /\ connecting \in {"tcp", "tls"}
    /\ \E tlsInit \in BOOLEAN, handshake \in {FZ_REPLY_WOULDBLOCK, FZ_REPLY_ERROR} :
         Apply(Handle(Cur, "OnConnect", <<tlsInit, handshake>>))
    /\ UNCHANGED Others

\* The engine starts a raw command: RawCommand, then SendNextCommand.
RawCommand ==
    /\ Idle
    /\ opCount < MaxOps
    /\ \E c \in {"RAW", "RAWBAD"} :
         Apply(Handle(Push(Cur, [Frame("raw", "", opCount + 1) EXCEPT !.m_command = c]),
                      "SendNextCommand", {}))
    /\ opCount' = opCount + 1
    /\ UNCHANGED <<srvMulti, srvCount, transferEndQueued, nKeepalive, nCancel, nExtra,
                   received>>

\* The engine starts a file transfer: FileTransfer returns FZ_REPLY_CONTINUE, then
\* SendNextCommand.  transfers: what the transfer may be, each with the direction, the
\* size of the local file (-1: there is none), the size the directory cache has for the
\* remote file (-1: none) and the type.
StartTransferMax(transfers, options, max) ==
    /\ Idle
    /\ opCount < max
    /\ \E tr \in transfers, opt \in options :
         Apply(Handle(FileTransfer([Cur EXCEPT !.localFile = tr.file,
                                               !.preserveTimestamps = opt],
                                   tr.download, tr.binary, tr.entry, opCount + 1),
                      "SendNextCommand", {}))
    /\ opCount' = opCount + 1
    /\ UNCHANGED <<srvMulti, srvCount, transferEndQueued, nKeepalive, nCancel, nExtra,
                   received>>

StartTransferOpt(transfers, options) == StartTransferMax(transfers, options, MaxOps)

\* A file transfer with the option to preserve timestamps on.
StartTransferWith(transfers) == StartTransferOpt(transfers, {TRUE})

\* Binary transfers of a new or empty local file, with nothing in the directory cache.
PlainTransfers ==
    {[download |-> d, file |-> f, entry |-> -1, binary |-> TRUE] :
        d \in BOOLEAN, f \in {-1, 0}}

StartFileTransfer == StartTransferWith(PlainTransfers)

\* The user answers the file-exists request with one of actions.
FileExistsReplyWith(actions) ==
    /\ ~crashed /\ connected /\ m_pCurOpData # <<>>
    /\ Head(m_pCurOpData).waitForAsyncRequest
    /\ Head(m_pCurOpData).opId = "transfer"
    /\ \E action \in actions, e \in EnvFor(Cur) :
         Apply(Handle([Cur EXCEPT !.env = e], "SetAsyncRequestReply", action))
    /\ UNCHANGED Others

FileExistsReply == FileExistsReplyWith({"overwrite", "skip"})

\* The user answers the interactive-login request, with a password or without.
InteractiveLoginReply ==
    /\ ~crashed /\ connected /\ m_pCurOpData # <<>>
    /\ Head(m_pCurOpData).waitForAsyncRequest
    /\ Head(m_pCurOpData).opId = "connect"
    /\ \E action \in {"password", "nopassword"} :
         Apply(Handle(Cur, "SetAsyncRequestReply", action))
    /\ UNCHANGED Others

\* CControlSocket::Cancel
Cancel ==
    /\ ~crashed /\ connected /\ m_pCurOpData # <<>>
    /\ nCancel < MaxCancel
    /\ IF GetCurrentCommandId(Cur) = "connect"
       THEN Apply(Handle(Log(Cur, "cancel"), "DoClose", FZ_REPLY_CANCELED))
       ELSE Apply(Handle(Log(Cur, "cancel"), "ResetOperation", FZ_REPLY_CANCELED))
    /\ nCancel' = nCancel + 1
    /\ UNCHANGED <<srvMulti, srvCount, transferEndQueued, opCount, nKeepalive, nExtra,
                   received>>

IdleTimer ==
    /\ ~crashed /\ connected /\ m_idleTimer
    /\ nKeepalive < MaxKeepalive
    /\ \E i \in 0..2 : Apply(Handle(Cur, "OnTimer", i))
    /\ nKeepalive' = nKeepalive + 1
    /\ UNCHANGED <<srvMulti, srvCount, transferEndQueued, opCount, nCancel, nExtra,
                   received>>

----------------------------------------------------------------------------
(* Actions: the data socket.  Once the transfer command is sent the transfer ends,    *)
(* well or badly, and the socket posts one transfer_end event to the event queue; the *)
(* event is handled later, whatever has happened to the socket meanwhile.             *)

EndReasons == {"successful", "transfer_failure", "transfer_failure_critical"}

\* The end reasons of a data socket in resumetest mode: the one byte asked for has
\* come, or it has not.
TestEndReasons == {"successful", "failed_resumetest"}

DataSocketEnd ==
    /\ ~crashed /\ connected
    /\ m_pTransferSocket.exists /\ m_pTransferSocket.reason = "none"
    /\ GetCurrentCommandId(Cur) = "rawtransfer" /\ Old(Cur).tranferCommandSent
    /\ \E r \in IF m_pTransferSocket.mode = "resumetest" THEN TestEndReasons
                ELSE EndReasons,
          wrote \in BOOLEAN :
         /\ m_pTransferSocket' = [m_pTransferSocket EXCEPT !.reason = r]
         /\ localFile' = IF wrote /\ m_pTransferSocket.mode = "transfer"
                            /\ Old(Cur).download
                         THEN localFile + 1 ELSE localFile
    /\ transferEndQueued' = transferEndQueued + 1
    /\ ev' = <<"socket_end">>
    /\ results' = <<>>
    /\ pops' = <<>>
    /\ lastDeliv' = NoDeliv
    /\ UNCHANGED <<connected, connecting, protocol, m_pTlsSocket, m_pendingReplies,
                   m_repliesToSkip, m_MultilineResponseCode, m_MultilineResponseLines,
                   m_lastTypeBinary, m_idleTimer, m_pCurOpData, wire, srvMulti, srvCount,
                   opCount, nKeepalive, nCancel, nExtra, sentLessFinal, nDropped, welcome,
                   owed, crashed, m_receiveBuffer, received, parsed, caps, pasvMode,
                   preserveTimestamps, srvType,
                   m_pIPResolver, ipQueued>>

TransferEndEvent ==
    /\ ~crashed /\ connected
    /\ transferEndQueued > 0
    /\ \E e \in EnvFor(Cur) : Apply(Handle([Cur EXCEPT !.env = e], "TransferEnd", {}))
    /\ transferEndQueued' = transferEndQueued - 1
    /\ UNCHANGED <<srvMulti, srvCount, opCount, nKeepalive, nCancel, nExtra,
                   received>>

----------------------------------------------------------------------------
(* Actions: the server.  It answers the commands in order: any 1xx replies, then one  *)
(* final reply, single-line or multi-line.  OnReceive hands each line to ParseLine.   *)

\* The transfer type in effect at the server once it has sent line: a good final reply
\* to TYPE I or TYPE A tells that the server has taken the type, one to a raw command
\* that it may have taken either.
TypeAfter(type, kind, line, final) ==
    IF type = "untracked" \/ ~final \/ kind = "extra" \/ line = <<>> \/ line[1] \notin {"2", "3"}
    THEN type
    ELSE CASE Head(wire).cmd = "TYPE I" -> "I"
           [] Head(wire).cmd = "TYPE A" -> "A"
           [] Head(wire).cmd = "RAW" -> "any"
           [] OTHER -> type

\* The line arrives.  owner: the op whose command it answers; final: it is the last line
\* of the answer to the command at the head of wire.
Receive(kind, line, final) ==
    \E ub \in UBFor(Cur), e \in EnvFor(Cur) :
        Apply(Handle([Cur EXCEPT !.replyOwner = IF kind = "extra" THEN -1 ELSE Head(wire).owner,
                                 !.replyCmd = IF kind = "extra" THEN "" ELSE Head(wire).cmd,
                                 !.wire = IF final THEN Tail(@) ELSE @,
                                 !.srvType = TypeAfter(@, kind, line, final),
                                 !.ev = <<kind>>,
                                 !.ub = ub, !.env = e],
                     "ParseLine", line))

ServerUp == ~crashed /\ connected /\ connecting = "no"

\* A 1xx reply to the command at the head of wire.
ServerPreliminary ==
    /\ ServerUp /\ wire # <<>> /\ srvMulti = <<>>
    /\ Head(wire).cmd \in {"welcome"} \cup DataCommands
    /\ srvCount < MaxPrelim
    /\ Receive("preliminary", Sp(Code150), FALSE)
    /\ srvCount' = IF connected' THEN srvCount + 1 ELSE 0
    /\ UNCHANGED <<srvMulti, transferEndQueued, opCount, nKeepalive, nCancel, nExtra,
                   received>>

\* A single-line final reply.
ServerFinal ==
    /\ ServerUp /\ wire # <<>> /\ srvMulti = <<>>
    /\ \E line \in {Sp(c) : c \in FinalCodes} \cup
                   (IF Head(wire).cmd = "welcome" THEN {LineSsh} ELSE {}) :
         Receive("final", line, TRUE)
    /\ srvCount' = 0
    /\ UNCHANGED <<srvMulti, transferEndQueued, opCount, nKeepalive, nCancel, nExtra,
                   received>>

\* A reply that answers no command: a second final reply to a command or a reply out of
\* the blue.
ServerExtra ==
    /\ ServerUp /\ srvMulti = <<>>
    /\ IF wire = <<>> THEN TRUE
       ELSE Head(wire).cmd \in DataCommands /\ Head(wire).owner # Owner(Cur)
    /\ nExtra < MaxExtra
    /\ \E line \in {Sp(Code150), Sp(Code200), Sp(Code550)} :
         Receive("extra", line, FALSE)
    /\ nExtra' = nExtra + 1
    /\ UNCHANGED <<srvMulti, srvCount, transferEndQueued, opCount, nKeepalive, nCancel,
                   received>>

\* A final reply without text, three characters long.
ServerShort ==
    /\ ServerUp /\ wire # <<>> /\ srvMulti = <<>>
    /\ Receive("short", Code200, TRUE)
    /\ srvCount' = 0
    /\ UNCHANGED <<srvMulti, transferEndQueued, opCount, nKeepalive, nCancel, nExtra,
                   received>>

\* The opening line of a multi-line final reply.
ServerMultiOpen ==
    /\ ServerUp /\ wire # <<>> /\ srvMulti = <<>>
    /\ \E c \in {Code200, Code550} :
         /\ Receive("open", Dash(c), FALSE)
         /\ srvMulti' = IF connected' THEN c ELSE <<>>
    /\ srvCount' = 0
    /\ UNCHANGED <<transferEndQueued, opCount, nKeepalive, nCancel, nExtra,
                   received>>

\* A line between the opening and the closing line.
ServerMultiMid ==
    /\ ServerUp /\ wire # <<>> /\ srvMulti # <<>>
    /\ srvCount < MaxMid
    /\ \E line \in MidLines(srvMulti) :
         Receive("mid", line, FALSE)
    /\ srvCount' = IF connected' THEN srvCount + 1 ELSE 0
    /\ srvMulti' = IF connected' THEN srvMulti ELSE <<>>
    /\ UNCHANGED <<transferEndQueued, opCount, nKeepalive, nCancel, nExtra,
                   received>>

\* The closing line.
ServerMultiClose ==
    /\ ServerUp /\ wire # <<>> /\ srvMulti # <<>>
    /\ Receive("close", Sp(srvMulti), TRUE)
    /\ srvMulti' = <<>>
    /\ srvCount' = 0
    /\ UNCHANGED <<transferEndQueued, opCount, nKeepalive, nCancel, nExtra,
                   received>>

----------------------------------------------------------------------------
(* The session: the engine's commands, the data socket, and a server that answers     *)
(* each command with any 1xx replies and one final reply, single-line.                *)

Next ==
    \/ Connect
    \/ SocketConnected
    \/ RawCommand
    \/ StartFileTransfer
    \/ FileExistsReply
    \/ InteractiveLoginReply
    \/ Cancel
    \/ IdleTimer
    \/ DataSocketEnd
    \/ TransferEndEvent
    \/ ServerPreliminary
    \/ ServerFinal

Spec == Init /\ [][Next]_vars

(* The session with a server that also sends replies that answer no command: a second  *)
(* final reply to the transfer command of a transfer the client has given up, or a     *)
(* reply while no command is outstanding.                                              *)

NextExtra ==
    \/ Next
    \/ ServerExtra

SpecExtra == Init /\ [][NextExtra]_vars

(* The reply reader: logon and raw commands against a server that sends multi-line    *)
(* replies and replies without text.                                                  *)

NextLines ==
    \/ Connect
    \/ SocketConnected
    \/ RawCommand
    \/ Cancel
    \/ ServerPreliminary
    \/ ServerFinal
    \/ ServerShort
    \/ ServerMultiOpen
    \/ ServerMultiMid
    \/ ServerMultiClose

SpecLines == Init /\ [][NextLines]_vars

----------------------------------------------------------------------------
(* The receive buffer: a server that sends any bytes, read in any chunks, to a client  *)
(* that has connected.                                                                 *)

RECURSIVE Chunks(_)
Chunks(n) == IF n = 0 THEN {<<>>} ELSE {Append(c, b) : c \in Chunks(n - 1), b \in Bytes}

Min(a, b) == IF a < b THEN a ELSE b

\* A read gives at least one byte and at most the free space of the buffer.
ReadChunk ==
    /\ ServerUp
    /\ Len(received) < MaxBytes
    /\ \E n \in 1..Min(RECVBUFFERSIZE - Len(m_receiveBuffer), MaxBytes - Len(received)) :
         \E chunk \in Chunks(n), ub \in UBFor(Cur), e \in EnvFor(Cur) :
            /\ Apply(Handle([Cur EXCEPT !.replyOwner = -1, !.ub = ub, !.env = e],
                            "OnReceive", chunk))
            /\ received' = received \o chunk
    /\ UNCHANGED <<srvMulti, srvCount, transferEndQueued, opCount, nKeepalive, nCancel,
                   nExtra>>

\* A read gives no byte: the server has closed the connection.
ReadClosed ==
    /\ ServerUp
    /\ Apply(Handle(Log(Cur, "closed_by_server"), "DoClose", FZ_REPLY_DISCONNECTED))
    /\ UNCHANGED Others

NextFraming ==
    \/ ConnectWith({"known"}, {FALSE}, {"MODE_PASSIVE"})
    \/ SocketConnected
    \/ ReadChunk
    \/ ReadClosed

SpecFraming == Init /\ [][NextFraming]_vars

----------------------------------------------------------------------------
(* File transfers that resume: the local file and the remote file have sizes around   *)
(* the limits of the resume test, the user may answer the file-exists request with    *)
(* resume, and the server may be known to have MFMT.                                  *)

ResumeTransfers ==
    {[download |-> TRUE, file |-> f, entry |-> -1, binary |-> TRUE] : f \in {-1, 0}}
    \cup {[download |-> TRUE, file |-> Limit2GB, entry |-> Limit2GB + 1, binary |-> TRUE]}
    \cup {[download |-> TRUE, file |-> Limit4GB + 1, entry |-> e, binary |-> TRUE] :
            e \in {Limit4GB, Limit4GB + 1, Limit4GB + 2}}
    \cup {[download |-> FALSE, file |-> 1, entry |-> e, binary |-> b] :
            e \in {1, 2}, b \in BOOLEAN}
    \cup {[download |-> FALSE, file |-> 0, entry |-> 0, binary |-> TRUE]}

\* The engine commands of a behaviour with such a transfer, Connect included.
MaxResumeOps == 2

StartResumeTransfer == opCount < MaxResumeOps /\ StartTransferWith(ResumeTransfers)

InitTransfer ==
    \E m \in {"unknown", "yes"} : InitWith([NoCaps EXCEPT !.mfmt_command = m])

NextTransfer ==
    \/ ConnectWith({"known"}, {FALSE}, {"MODE_PASSIVE"})
    \/ SocketConnected
    \/ StartResumeTransfer
    \/ FileExistsReplyWith({"overwrite", "resume", "skip"})
    \/ Cancel
    \/ DataSocketEnd
    \/ TransferEndEvent
    \/ ServerPreliminary
    \/ ServerFinal

SpecTransfer == InitTransfer /\ [][NextTransfer]_vars

----------------------------------------------------------------------------
(* Capabilities: the logon goes on to FEAT and the server answers with feature lines; *)
(* a logon that is cancelled closes the connection and the next one meets the         *)
(* capabilities the registry has kept.  A download of a file above the 4 GB limit     *)
(* asks for the size of the remote file and tests the resume capability.              *)

\* The feature lines of the model: MLSD with facts and without, MLST with facts and,
\* in lower case, without, SIZE, and a word that only starts like a feature.
FeatLines == {<<" ", "M", "L", "S", "D", " ", "a">>,
              <<" ", "M", "L", "S", "D">>,
              <<" ", "M", "L", "S", "T", " ", "b">>,
              <<" ", "m", "l", "s", "t", " ">>,
              <<" ", "S", "I", "Z", "E">>,
              <<" ", "M", "L", "S", "T", "D">>}

\* The feature lines of one FEAT reply.
MaxFeat == 2

\* The opening line of the reply to FEAT.
ServerFeatOpen ==
    /\ ServerUp /\ wire # <<>> /\ srvMulti = <<>>
    /\ Head(wire).cmd = "FEAT"
    /\ Receive("open", Dash(Code211), FALSE)
    /\ srvMulti' = IF connected' THEN Code211 ELSE <<>>
    /\ srvCount' = 0
    /\ UNCHANGED <<transferEndQueued, opCount, nKeepalive, nCancel, nExtra,
                   received>>

\* A feature line of the reply to FEAT, one of lines.
ServerFeatLineOf(lines) ==
    /\ ServerUp /\ wire # <<>> /\ srvMulti # <<>>
    /\ Head(wire).cmd = "FEAT"
    /\ srvCount < MaxFeat
    /\ \E line \in lines :
         Receive("mid", line, FALSE)
    /\ srvCount' = IF connected' THEN srvCount + 1 ELSE 0
    /\ srvMulti' = IF connected' THEN srvMulti ELSE <<>>
    /\ UNCHANGED <<transferEndQueued, opCount, nKeepalive, nCancel, nExtra,
                   received>>

ServerFeatLine == ServerFeatLineOf(FeatLines)

\* The reply to SIZE with the size of the remote file.
ServerSize ==
    /\ ServerUp /\ wire # <<>> /\ srvMulti = <<>>
    /\ Head(wire).cmd = "SIZE"
    /\ Receive("final", Sp(Code213) \o <<"6">>, TRUE)
    /\ srvCount' = 0
    /\ UNCHANGED <<srvMulti, transferEndQueued, opCount, nKeepalive, nCancel, nExtra,
                   received>>

\* A download onto a local file above the 4 GB limit, nothing in the directory cache.
ProbedTransfers ==
    {[download |-> TRUE, file |-> Limit4GB + 1, entry |-> -1, binary |-> TRUE]}

NextFeat ==
    \/ ConnectWith({"known"}, {TRUE}, {"MODE_PASSIVE"})
    \/ SocketConnected
    \/ StartTransferWith(ProbedTransfers)
    \/ FileExistsReplyWith({"resume"})
    \/ Cancel
    \/ DataSocketEnd
    \/ TransferEndEvent
    \/ ServerPreliminary
    \/ ServerFinal
    \/ ServerFeatOpen
    \/ ServerFeatLine
    \/ ServerMultiClose
    \/ ServerSize

SpecFeat == Init /\ [][NextFeat]_vars

----------------------------------------------------------------------------
(* Properties *)

\* The last handler did what the tag names.
Has(tag) == \E i \in 1..Len(ev) : ev[i] = tag

\* C1, as amended: m_pendingReplies is the number of commands sent, plus one for the
\* welcome message once OnConnect expects it, less the replies received whose first
\* character is not '1', not counting those received while nothing was pending (a 1xx
\* reply leaves it unchanged, a reply that is dropped too).
C1_ReplyAccounting == m_pendingReplies = welcome + sentLessFinal + nDropped

\* A command is in flight after a reply was dropped.
C1_Witness == welcome = 1 /\ nDropped = 1 /\ sentLessFinal = -1 /\ m_pendingReplies = 1

\* C1, as stated: m_pendingReplies is the number of commands sent less the replies
\* received whose first character is not '1'.
C1_AsStated == m_pendingReplies = sentLessFinal

\* C2: in every reachable state m_repliesToSkip <= m_pendingReplies.
C2_SkipAtMostPending == m_repliesToSkip <= m_pendingReplies

\* An operation was cancelled with a reply in flight.
C2_Witness == Has("cancel") /\ m_repliesToSkip = 1 /\ m_pendingReplies = 1

\* C3: a reply whose first character is not '1' and that was in flight at the last
\* reset is not given to an op to parse, and as long as more such replies are to come
\* the ops stay as they are.
C3_OwedRepliesSkipped ==
    [][Has("owed_reply")' =>
          /\ ~Has("to_op")'
          /\ lastDeliv' = NoDeliv
          /\ m_repliesToSkip' > 0 => m_pCurOpData' = m_pCurOpData]_vars

\* Such a reply is skipped while a later operation waits.
C3_Witness == Has("owed_reply") /\ Has("skipped") /\ m_pCurOpData # <<>>

\* C4: the reply to the STOR of a cancelled upload is not given to a later op to parse;
\* a reply to STOR is parsed by the op that sent the command.
C4_LateRepliesSwallowed == lastDeliv[3] = "STOR" => lastDeliv[1] = lastDeliv[2]

\* C5: a reply that arrives while m_pendingReplies is 0 is given to no op to parse, and
\* m_pendingReplies stays 0.
C5_DroppedWhenNothingPending ==
    Has("nothing_pending") => ~Has("to_op") /\ m_pendingReplies = 0

\* C6: a line that arrives between the opening and the closing line of a multi-line
\* reply is added to m_MultilineResponseLines and is not parsed as a reply.
C6_MidLinesAccumulated ==
    (Len(ev) > 0 /\ ev[1] = "mid") => Has("multi_add") /\ ~Has("parse")

\* The fragments of a byte sequence between runs of CR, LF and NUL: done, those that a
\* delimiter has ended; cur, the bytes after the last delimiter.
Split(bytes) ==
    LET F[i \in 0..Len(bytes)] ==
            IF i = 0 THEN [done |-> <<>>, cur |-> <<>>]
            ELSE IF bytes[i] \in {CR, LF, NUL}
                 THEN [done |-> IF F[i - 1].cur = <<>> THEN F[i - 1].done
                                ELSE Append(F[i - 1].done, F[i - 1].cur),
                       cur |-> <<>>]
                 ELSE [done |-> F[i - 1].done, cur |-> Append(F[i - 1].cur, bytes[i])]
    IN  F[Len(bytes)]

\* The fragments as text.
AsText(fragments) ==
    [i \in 1..Len(fragments) |->
        [j \in 1..Len(fragments[i]) |-> CharOf(fragments[i][j])]]

IsPrefix(a, b) == Len(a) <= Len(b) /\ SubSeq(b, 1, Len(a)) = a

\* C7, as amended: if no fragment of the bytes received is longer than MAXLINELEN, the
\* lines handed to ParseLine are, in order, the non-empty fragments between runs of
\* CR, LF and NUL that a delimiter has ended, all of them while the connection is open
\* and the first of them once a line has made ParseLine close it, however the bytes were
\* cut into reads.
C7_LineFraming ==
    LET split == Split(received)
        expected == AsText(split.done)
    IN  (/\ Len(split.cur) <= MAXLINELEN
         /\ \A i \in 1..Len(split.done) : Len(split.done[i]) <= MAXLINELEN)
        => /\ IsPrefix(parsed, expected)
           /\ connected => parsed = expected

\* Two lines have been handed to ParseLine, a run of delimiters was passed over and the
\* beginning of a third line waits in the buffer.
C7_Witness ==
    /\ connected
    /\ Len(received) = 6
    /\ parsed = <<<<"s">>, <<"h">>>>
    /\ Len(m_receiveBuffer) = 1

\* C7, as stated, for the bytes up to the last delimiter received: the lines handed to
\* ParseLine are exactly the non-empty fragments between runs of CR, LF and NUL.
C7_AsStated == parsed = AsText(Split(received).done)

\* C8: a line of at most three characters that arrives outside a multi-line reply is
\* parsed as a reply.
C8_ShortLineIsReply ==
    (Len(ev) > 0 /\ ev[1] = "short" /\ m_MultilineResponseCode = <<>>) => Has("parse")

\* C9: a raw transfer is popped with FZ_REPLY_OK only after both the final reply to the
\* transfer command and the end of the data socket; once both have happened, in either
\* order, its result is FZ_REPLY_OK if the reply was 2xx or 3xx and the socket ended
\* successfully, and FZ_REPLY_ERROR otherwise.
C9_BothEvents ==
    \A i \in 1..Len(pops) :
        LET f == pops[i].frame
            code == pops[i].code
            well == f.finalSeen = "good" /\ f.endSeen = "successful"
        IN  f.opId = "rawtransfer" =>
                /\ code = FZ_REPLY_OK => well
                /\ f.finalSeen # "none" /\ f.endSeen # "none" =>
                       code = IF well THEN FZ_REPLY_OK ELSE FZ_REPLY_ERROR

\* A raw transfer is popped with FZ_REPLY_OK by TransferEnd, the reply having come first.
C9_Witness ==
    /\ Has("transferend")
    /\ \E i \in 1..Len(pops) :
          pops[i].frame.opId = "rawtransfer" /\ pops[i].code = FZ_REPLY_OK

\* The other order: a raw transfer is popped with FZ_REPLY_OK by the final reply, the
\* socket having ended first.
C9_EndFirst ==
    /\ Has("to_op")
    /\ \E i \in 1..Len(pops) :
          pops[i].frame.opId = "rawtransfer" /\ pops[i].code = FZ_REPLY_OK

\* C10: a transfer_end event handled while there is no op, no data socket, or the op on
\* top of the stack is no raw transfer changes nothing: no op, no end reason, no
\* counter; nothing is popped and no result is given.
C10_StaleTransferEnd ==
    [][(/\ TransferEndEvent
        /\ \/ m_pCurOpData = <<>>
           \/ ~m_pTransferSocket.exists
           \/ Head(m_pCurOpData).opId # "rawtransfer")
       => /\ UNCHANGED <<connected, connecting, protocol, m_pTlsSocket, m_pendingReplies,
                         m_repliesToSkip, m_MultilineResponseCode,
                         m_MultilineResponseLines, m_lastTypeBinary, m_idleTimer,
                         m_pTransferSocket, m_pCurOpData, wire, sentLessFinal, nDropped,
                         welcome, owed, crashed>>
          /\ pops' = <<>>
          /\ results' = <<>>]_vars

\* A transfer_end event was handled after its raw transfer had been popped.
C10_Witness == ev = <<"transferend_ignored">>

\* C11: every failure of the logon op carries FZ_REPLY_DISCONNECTED and closes the
\* connection: a logon op popped with another result than FZ_REPLY_OK is popped with
\* the DISCONNECTED flag, by a handler that leaves the connection closed.  The code
\* keeps this where the op's ParseResponse fails and breaks it where the user gives no
\* password to the interactive-login request and where the op's Send fails.
C11_LogonFailureCloses ==
    \A i \in 1..Len(pops) :
        (pops[i].frame.opId = "connect" /\ pops[i].code # FZ_REPLY_OK)
            => (FZ_REPLY_DISCONNECTED \subseteq pops[i].code /\ ~connected)

\* C12: a file transfer that ends with the end reason transfer_command_failure_immediate
\* (the server answered the transfer command, sent and not yet answered with 1xx, with
\* 5xx) gives a result with the CRITICAL flag.
C12_ImmediateFailureCritical ==
    \A i \in 1..Len(pops) :
        (/\ pops[i].frame.opId = "transfer"
         /\ pops[i].frame.transferEndReason = "transfer_command_failure_immediate")
            => FZ_REPLY_CRITICALERROR \subseteq pops[i].code

\* The server has answered RETR, STOR or APPE with 5xx and the transfer has ended.
C12_Witness ==
    /\ lastDeliv[1] # 0 /\ lastDeliv[3] \in DataCommands
    /\ \E i \in 1..Len(pops) :
          /\ pops[i].frame.opId = "transfer"
          /\ pops[i].frame.tranferCommandSent
          /\ pops[i].frame.transferEndReason = "transfer_command_failure_immediate"
          /\ pops[i].code = FZ_REPLY_CRITICALERROR

\* C13: whenever the data socket has reported transfer_failure_critical for a file
\* transfer, at whatever point of the transfer, the result of the file-transfer op
\* carries CRITICAL and WRITEFAILED.  The code keeps this only if TransferEnd handles
\* the report before the op has failed for another reason.
C13_CriticalReported ==
    \A i \in 1..Len(pops), j \in 1..Len(pops) :
        (/\ i < j
         /\ pops[i].frame.opId = "rawtransfer"
         /\ pops[i].frame.reported = "transfer_failure_critical"
         /\ pops[j].frame.opId = "transfer")
            => (FZ_REPLY_CRITICALERROR \cup FZ_REPLY_WRITEFAILED) \subseteq pops[j].code

\* C19: a keep-alive command is sent only from a state with no op, no pending reply and
\* no reply to skip; the idle timer that fires in another state sends nothing and
\* changes no counter.
C19_KeepaliveOnlyWhenIdle ==
    [][/\ (\E k \in 1..Len(ev') : ev'[k] = "keepalive")
            => (m_pCurOpData = <<>> /\ m_pendingReplies = 0 /\ m_repliesToSkip = 0)
       /\ (IdleTimer /\ ~(m_pCurOpData = <<>> /\ m_pendingReplies = 0 /\ m_repliesToSkip = 0))
            => /\ UNCHANGED <<wire, m_pendingReplies, m_repliesToSkip, m_pCurOpData,
                              sentLessFinal, connected>>
               /\ ev' = <<>>]_vars

\* The idle timer has fired and a keep-alive command is on its way to the server.
C19_Witness ==
    /\ Has("keepalive") /\ Has("send")
    /\ m_pCurOpData = <<>> /\ m_pendingReplies = 1 /\ m_repliesToSkip = 1
    /\ wire # <<>>

\* C20: in every reachable state no frame below the top of the op stack has
\* waitForAsyncRequest set, so at most one frame has it and that frame is the top; and
\* while the top frame has it, SendNextCommand returns FZ_REPLY_WOULDBLOCK without
\* sending a command, changing a counter or touching the op stack.
C20_OneWaitingFrame ==
    /\ \A i \in 2..Len(m_pCurOpData) : ~m_pCurOpData[i].waitForAsyncRequest
    /\ (m_pCurOpData # <<>> /\ Head(m_pCurOpData).waitForAsyncRequest)
          => \A e \in EnvFor(Cur) :
                LET r == Handle([Cur EXCEPT !.env = e], "SendNextCommand", {})
                IN  /\ r.ret = FZ_REPLY_WOULDBLOCK
                    /\ r.wire = wire
                    /\ r.m_pendingReplies = m_pendingReplies
                    /\ r.m_pCurOpData = m_pCurOpData
                    /\ ~(\E k \in 1..Len(r.ev) : r.ev[k] = "send")

\* A file transfer waits for the user's answer to the file-exists request, with its
\* replies all received.
C20_Witness ==
    /\ Len(m_pCurOpData) = 1
    /\ Head(m_pCurOpData).opId = "transfer"
    /\ Head(m_pCurOpData).waitForAsyncRequest
    /\ m_repliesToSkip = 0 /\ m_pendingReplies = 0

\* C14: when a download fails, the local file is deleted on cleanup if and only if the
\* download itself has created the file and the file is still zero bytes long; a file
\* that existed before the download, or that has received data, is not deleted, at
\* whatever stage the download fails.
C14_EmptyFileCleanup ==
    \A i \in 1..Len(pops) :
        (/\ pops[i].frame.opId = "transfer"
         /\ pops[i].frame.download
         /\ pops[i].code # FZ_REPLY_OK)
            => ((pops[i].frame.sizeAtReset >= 0 /\ localFile = -1)
                    <=> (pops[i].frame.created /\ pops[i].frame.sizeAtReset = 0))

\* A download has created its local file, has failed before a byte was written, and
\* the file is gone.
C14_Witness ==
    /\ localFile = -1
    /\ \E i \in 1..Len(pops) :
          /\ pops[i].frame.opId = "transfer"
          /\ pops[i].frame.download
          /\ pops[i].frame.created
          /\ pops[i].frame.tranferCommandSent
          /\ pops[i].frame.sizeAtReset = 0
          /\ "ERROR" \in pops[i].code

\* The file transfers, on the stack or popped, that are uploads with resume in binary
\* mode of a local file as long as the remote file; code: the result of a popped one.
ResumeUploads ==
    LET same(f) == /\ f.opId = "transfer" /\ ~f.download /\ f.resume /\ f.binary
                   /\ f.remoteFileSize = f.localFileSize
    IN  {[frame |-> m_pCurOpData[i], live |-> TRUE, code |-> {}] :
            i \in {j \in 1..Len(m_pCurOpData) : same(m_pCurOpData[j])}}
        \cup {[frame |-> pops[i].frame, live |-> FALSE, code |-> pops[i].code] :
                i \in {j \in 1..Len(pops) : same(pops[j].frame)}}

\* No raw transfer has been pushed for the transfer u and no transfer command sent.
NothingTransferred(u) ==
    /\ ~u.frame.tranferCommandSent
    /\ \A i \in 1..Len(m_pCurOpData) :
          m_pCurOpData[i].opId = "rawtransfer" => m_pCurOpData[i].epoch # u.frame.epoch
    /\ \A i \in 1..Len(pops) :
          pops[i].frame.opId = "rawtransfer" => pops[i].frame.epoch # u.frame.epoch

BugOf(f) == IF f.localFileSize > Limit4GB THEN "resume4GBbug" ELSE "resume2GBbug"

\* C16: when the RETR of a resume test fails with a 5xx reply, the bug capability
\* becomes yes and the whole file transfer fails with CRITICAL.
C16_FailedTestFlagsBug ==
    \A i \in 1..Len(pops) :
        (/\ pops[i].frame.opId = "transfer"
         /\ pops[i].frame.opState = "filetransfer_waitresumetest"
         /\ pops[i].frame.tranferCommandSent
         /\ lastDeliv[3] = "RETR"
         /\ \E j \in 1..Len(pops) : /\ pops[j].frame.opId = "rawtransfer"
                                     /\ pops[j].frame.finalSeen = "bad")
            => /\ caps[BugOf(pops[i].frame)] = "yes"
               /\ "CRITICAL" \in pops[i].code

\* The feature lines of the model with MLSD and with MLST, and the facts each gives.
MlsdLines == {<<" ", "M", "L", "S", "D", " ", "a">>, <<" ", "M", "L", "S", "D">>}
MlstLines == {<<" ", "M", "L", "S", "T", " ", "b">>, <<" ", "m", "l", "s", "t", " ">>}
FactsOf(line) ==
    CASE line = <<" ", "M", "L", "S", "D", " ", "a">> -> <<"a">>
      [] line = <<" ", "M", "L", "S", "T", " ", "b">> -> <<"b">>
      [] OTHER -> <<>>

\* The lines of the reply to FEAT read so far are an MLSD line and an MLST line.
FeatReplyWith(mlsd, mlst) ==
    /\ m_pCurOpData # <<>>
    /\ Head(m_pCurOpData).opId = "connect"
    /\ Head(m_pCurOpData).opState = "LOGON_FEAT"
    /\ Len(m_MultilineResponseLines) = 3
    /\ {m_MultilineResponseLines[2], m_MultilineResponseLines[3]} = {mlsd, mlst}

\* C18: after a FEAT reply with an MLSD line and an MLST line, in either order,
\* mlsd_command is yes, timezone_offset is no and the parameter of mlsd_command is the
\* facts of the MLST line if there are any and else the facts of the MLSD line.
C18_MlstOverridesMlsd ==
    \A mlsd \in MlsdLines, mlst \in MlstLines :
        FeatReplyWith(mlsd, mlst)
            => /\ caps.mlsd_command = "yes"
               /\ caps.timezone_offset = "no"
               /\ caps.facts = IF FactsOf(mlst) # <<>> THEN FactsOf(mlst)
                                ELSE FactsOf(mlsd)

\* The step hands a line of the server to a logon that waits for the reply to FEAT.
FeatLineStep ==
    /\ m_pCurOpData # <<>>
    /\ Head(m_pCurOpData).opId = "connect"
    /\ Head(m_pCurOpData).opState = "LOGON_FEAT"
    /\ ev' # <<>> /\ ev'[1] \in {"open", "mid", "close", "final"}

\* The step hands a reply to SIZE that gives a size to a transfer that waits for it.
SizeReplyStep ==
    /\ m_pCurOpData # <<>>
    /\ Head(m_pCurOpData).opState = "filetransfer_size"
    /\ lastDeliv'[3] = "SIZE"
    /\ m_pCurOpData' # <<>>
    /\ Head(m_pCurOpData').remoteFileSize >= 0

\* The step ends the resume test of a transfer, with the result to.
ResumeTestStep(cap, to) ==
    /\ Len(m_pCurOpData) = 2
    /\ m_pCurOpData[2].opState = "filetransfer_waitresumetest"
    /\ cap = BugOf(m_pCurOpData[2])
    /\ \E i \in 1..Len(pops') :
          IF to = "no"
          THEN pops'[i].frame.opId = "rawtransfer" /\ pops'[i].code = FZ_REPLY_OK
          ELSE /\ pops'[i].frame.opId = "transfer"
               /\ pops'[i].frame.transferEndReason = "failed_resumetest"

\* C17: a capability that is yes with a parameter that is not empty stays yes with a
\* parameter that is not empty, and a capability changes only in a step that gives the
\* result of a probe: a line of the FEAT reply, a reply to SIZE with a size, the end of
\* a resume test.
C17_CapabilityMonotone ==
    [][/\ (caps.mlsd_command = "yes" /\ caps.facts # <<>>)
            => (caps'.mlsd_command = "yes" /\ caps'.facts # <<>>)
       /\ \A cap \in DOMAIN caps :
            caps'[cap] # caps[cap]
                => \/ FeatLineStep /\ cap \notin {"resume2GBbug", "resume4GBbug"}
                   \/ /\ cap = "size_command" /\ caps[cap] = "unknown"
                      /\ caps'[cap] = "yes" /\ SizeReplyStep
                   \/ /\ cap \in {"resume2GBbug", "resume4GBbug"}
                      /\ caps'[cap] \in {"yes", "no"}
                      /\ ResumeTestStep(cap, caps'[cap])]_vars

\* The registry has facts for MLSD, and the FEAT reply of a later logon has brought an
\* MLSD line with other facts and an MLST line without facts: the facts are kept.
C17_Witness ==
    /\ FeatReplyWith(<<" ", "M", "L", "S", "D", " ", "a">>,
                     <<" ", "m", "l", "s", "t", " ">>)
    /\ caps.mlsd_command = "yes" /\ caps.facts = <<"b">>

\* The states of a raw transfer, from type to waitsocket.
RawTransferStates ==
    {"rawtransfer_type", "rawtransfer_port_pasv", "rawtransfer_rest",
     "rawtransfer_transfer", "rawtransfer_waitfinish", "rawtransfer_waittransfer",
     "rawtransfer_waittransferpre", "rawtransfer_waitsocket"}

\* C21: a data socket exists if and only if the top frame is a raw transfer in a state
\* from type to waitsocket, and whenever an op is reset and popped the data socket is
\* gone.
C21_DataSocketIffRawTransfer ==
    /\ m_pTransferSocket.exists
          <=> (/\ m_pCurOpData # <<>>
               /\ Head(m_pCurOpData).opId = "rawtransfer"
               /\ Head(m_pCurOpData).opState \in RawTransferStates)
    /\ \A i \in 1..Len(pops) : ~pops[i].socket

\* A raw transfer whose data socket had ended has been reset, and with it the file
\* transfer: the data socket is gone.
C21_Witness ==
    /\ ~m_pTransferSocket.exists
    /\ m_pCurOpData = <<>>
    /\ \E i \in 1..Len(pops) :
          /\ pops[i].frame.opId = "rawtransfer"
          /\ pops[i].frame.reported # "none"

----------------------------------------------------------------------------
(* Actions: the engine's commands Delete, RemoveDir, Rename and Chmod.  Each returns  *)
(* FZ_REPLY_CONTINUE, then SendNextCommand.                                           *)

\* Most files of a delete command.
MaxFiles == 2

\* The queues of files of a delete command.
FileQueues ==
    {q \in UNION {[1..n -> {"x", "y"}] : n \in 1..MaxFiles} :
        \A i, j \in DOMAIN q : i # j => q[i] # q[j]}

StartDelete ==
    /\ Idle
    /\ opCount < MaxOps
    /\ \E files \in FileQueues :
         Apply(Handle(Delete(Cur, "/a", files, opCount + 1), "SendNextCommand", {}))
    /\ opCount' = opCount + 1
    /\ UNCHANGED <<srvMulti, srvCount, transferEndQueued, nKeepalive, nCancel, nExtra,
                   received>>

\* "/bad" is a directory whose name the server's charset cannot encode.
StartRemoveDir ==
    /\ Idle
    /\ opCount < MaxOps
    /\ \E path \in {"/a", "/bad"} :
         Apply(Handle(RemoveDir(Cur, path, "d", opCount + 1), "SendNextCommand", {}))
    /\ opCount' = opCount + 1
    /\ UNCHANGED <<srvMulti, srvCount, transferEndQueued, nKeepalive, nCancel, nExtra,
                   received>>

StartRename ==
    /\ Idle
    /\ opCount < MaxOps
    /\ \E toPath \in {"/a", "/b"} :
         Apply(Handle(Rename(Cur, "/a", "x", toPath, "y", opCount + 1),
                      "SendNextCommand", {}))
    /\ opCount' = opCount + 1
    /\ UNCHANGED <<srvMulti, srvCount, transferEndQueued, nKeepalive, nCancel, nExtra,
                   received>>

StartChmod ==
    /\ Idle
    /\ opCount < MaxOps
    /\ Apply(Handle(Chmod(Cur, "/a", "x", opCount + 1), "SendNextCommand", {}))
    /\ opCount' = opCount + 1
    /\ UNCHANGED <<srvMulti, srvCount, transferEndQueued, nKeepalive, nCancel, nExtra,
                   received>>

NextOps ==
    \/ ConnectWith({"known", "bad"}, {FALSE}, {"MODE_PASSIVE"})
    \/ SocketConnected
    \/ RawCommand
    \/ StartDelete
    \/ StartRemoveDir
    \/ StartRename
    \/ StartChmod
    \/ Cancel
    \/ ServerFinal

SpecOps == Init /\ [][NextOps]_vars

----------------------------------------------------------------------------
(* Active mode: the server is set to active transfers, and a raw transfer asks the    *)
(* external-IP resolver for the address of its PORT command.  The resolver's thread   *)
(* posts one event when it is done; the event is handled later, whatever has happened *)
(* to the resolver meanwhile.                                                         *)

ResolverDone ==
    /\ ~crashed /\ connected
    /\ m_pIPResolver = "running"
    /\ \E r \in {"ok", "fail"} : m_pIPResolver' = r
    /\ ipQueued' = ipQueued + 1
    /\ ev' = <<"resolver_done">>
    /\ results' = <<>>
    /\ pops' = <<>>
    /\ lastDeliv' = NoDeliv
    /\ UNCHANGED <<connected, connecting, protocol, m_pTlsSocket, m_pendingReplies,
                   m_repliesToSkip, m_MultilineResponseCode, m_MultilineResponseLines,
                   m_lastTypeBinary, m_idleTimer, m_pTransferSocket, m_pCurOpData, wire,
                   srvMulti, srvCount, transferEndQueued, opCount, nKeepalive, nCancel,
                   nExtra, sentLessFinal, nDropped, welcome, owed, crashed,
                   m_receiveBuffer, received, parsed, caps, pasvMode, localFile,
                   preserveTimestamps, srvType>>

ExternalIPEvent ==
    /\ ~crashed /\ connected
    /\ ipQueued > 0
    /\ \E e \in EnvFor(Cur) :
         Apply(Handle([Cur EXCEPT !.env = e, !.ipQueued = @ - 1], "OnExternalIPAddress", {}))
    /\ UNCHANGED Others

NextActive ==
    \/ ConnectWith({"known"}, {FALSE}, {"MODE_ACTIVE"})
    \/ SocketConnected
    \/ RawCommand
    \/ StartFileTransfer
    \/ FileExistsReply
    \/ Cancel
    \/ ResolverDone
    \/ ExternalIPEvent
    \/ DataSocketEnd
    \/ TransferEndEvent
    \/ ServerPreliminary
    \/ ServerFinal

SpecActive == Init /\ [][NextActive]_vars

FramesSeen ==
    {m_pCurOpData[i] : i \in 1..Len(m_pCurOpData)} \cup {pops[i].frame : i \in 1..Len(pops)}

\* The op has parsed a 2xx or 3xx reply to the command.
GoodReply(f, cmd) ==
    \E i \in 1..Len(f.replies) : f.replies[i].cmd = cmd /\ f.replies[i].code \in {"2", "3"}

\* The commands of a rename, given the replies it has had to CWD and PWD.
RenameCommands(f) ==
    LET cwd == "CWD " \o f.path
        ok == GoodReply(f, cwd) /\ GoodReply(f, "PWD")
    IN  <<cwd>> \o (IF GoodReply(f, cwd) THEN <<"PWD">> ELSE <<>>)
        \o <<"RNFR " \o (IF ok THEN f.file ELSE f.path \o "/" \o f.file),
             "RNTO " \o (IF ok /\ f.path = f.toPath THEN f.toFile
                         ELSE f.toPath \o "/" \o f.toFile)>>

DeleteReplies(f) ==
    SelectSeq(f.replies, LAMBDA r : r.cmd \notin {"CWD " \o f.path, "PWD"})

\* The commands of a delete, given the replies it has had to CWD and PWD.
DeleteCommands(f) ==
    LET cwd == "CWD " \o f.path
        ok == GoodReply(f, cwd) /\ GoodReply(f, "PWD")
    IN  <<cwd>> \o (IF GoodReply(f, cwd) THEN <<"PWD">> ELSE <<>>)
        \o [i \in 1..Len(f.queued) |->
               "DELE " \o (IF ok THEN f.queued[i] ELSE f.path \o "/" \o f.queued[i])]

C26_FailureKeepsSession ==
    (/\ Has("to_op")
     /\ \E i \in 1..Len(pops) :
           /\ pops[i].frame.opId \in {"raw", "rename", "removedir", "chmod"}
           /\ pops[i].code = FZ_REPLY_ERROR)
       => /\ connected
          /\ ~crashed
          /\ \A j \in 1..Len(results) : results[j] = FZ_REPLY_ERROR

\* C27: a command that cannot be converted to the server's charset is not sent and is
\* not counted in m_pendingReplies; the handler that tried to send it ends with the op
\* popped with FZ_REPLY_ERROR, that result given to the engine, no op left, and the
\* connection open.
C27_ConversionFailure ==
    /\ \A i \in 1..Len(wire) : Encodable(wire[i].cmd)
    /\ Has("convfail")
          => /\ ~Has("send")
             /\ m_pendingReplies = Len(wire)
             /\ m_pCurOpData = <<>>
             /\ pops # <<>>
             /\ \A i \in 1..Len(pops) : pops[i].code = FZ_REPLY_ERROR
             /\ results # <<>> /\ results[1] = FZ_REPLY_ERROR
             /\ connected /\ ~crashed

\* The commands of a remove-dir in a directory whose name cannot be converted: neither
\* CWD nor RMD is sent, and the op ends with FZ_REPLY_ERROR.
C27_Witness ==
    /\ Has("convfail")
    /\ \E i \in 1..Len(pops) : pops[i].frame.opId = "removedir" /\ pops[i].frame.cmds = <<>>
    /\ connected

\* The raw transfers of the handler that have sent their transfer command.
TransfersSeen == {f \in FramesSeen : f.opId = "rawtransfer" /\ f.nData = 1}

KeepaliveOnWire == \E i \in 1..Len(wire) : wire[i].owner = 0

----------------------------------------------------------------------------
(* The session with a server that answers: a final reply that is due to the command   *)
(* at the head of wire does arrive, and the socket's read event is handled.  The      *)
(* fairness is weak fairness of ServerFinal, WF_vars(ServerFinal), written out:       *)
(* ServerFinalDue is ENABLED <<ServerFinal>>_vars, since the handler takes any line   *)
(* and the step takes the command off the head of wire.                               *)

NextAnswered ==
    \/ ConnectWith({"known"}, {FALSE}, {"MODE_PASSIVE"})
    \/ SocketConnected
    \/ RawCommand
    \/ StartRename
    \/ Cancel
    \/ IdleTimer
    \/ ServerPreliminary
    \/ ServerFinal

\* The guard of ServerFinal.
ServerFinalDue == ServerUp /\ wire # <<>> /\ srvMulti = <<>>

FairServerFinal == []<>(~ServerFinalDue) \/ []<><<ServerFinal>>_vars

SpecAnswered == Init /\ [][NextAnswered]_vars /\ FairServerFinal

\* SendNextCommand has just returned FZ_REPLY_WOULDBLOCK to an op because of
\* m_repliesToSkip, and the op is still on the stack.
SendBlocked == Has("blocked") /\ m_pCurOpData # <<>> /\ m_repliesToSkip > 0

\* The handler that has just run has called the Send of the op on top of the stack
\* after it skipped a reply and m_repliesToSkip reached zero.
SendResumed ==
    /\ m_repliesToSkip = 0
    /\ \E j \in 1..Len(ev) : /\ ev[j] = "skipped"
                             /\ \E k \in (j + 1)..Len(ev) : ev[k] = "opsend"

\* C30: an op that SendNextCommand has refused because m_repliesToSkip > 0 does not
\* stay blocked: the handler that skips the reply which brings m_repliesToSkip to zero
\* calls the Send of the op on the stack itself, and, the server answering, every
\* blocked op is resumed in this way unless it is first cancelled or the connection is
\* closed.
C30_BlockedResumed ==
    /\ [][(/\ m_repliesToSkip > 0 /\ m_repliesToSkip' = 0
           /\ m_pCurOpData # <<>> /\ connected')
             => SendResumed']_vars
    /\ (SendBlocked ~> (SendResumed \/ m_pCurOpData = <<>> \/ ~connected))

\* An op that was blocked has been resumed: the last reply to skip has come and the
\* op's Send has sent its first command.
C30_Witness ==
    /\ SendResumed /\ Has("send")
    /\ m_pCurOpData # <<>> /\ m_pendingReplies = 1
    /\ Len(wire) = 1 /\ wire[1].owner = Top(Cur).epoch
    /\ nCancel > 0

\* C31: a step that ends the last op on the stack and leaves the connection open, no
\* reply pending and none to skip, leaves the idle timer armed; and so does a step in
\* which m_repliesToSkip reaches zero with no op on the stack and no reply pending.
C31_IdleTimerArmed ==
    [][/\ (/\ m_pCurOpData # <<>> /\ m_pCurOpData' = <<>>
           /\ connected' /\ ~crashed'
           /\ m_pendingReplies' = 0 /\ m_repliesToSkip' = 0)
             => m_idleTimer'
       /\ (/\ m_repliesToSkip > 0 /\ m_repliesToSkip' = 0
           /\ m_pCurOpData' = <<>>
           /\ connected' /\ ~crashed'
           /\ m_pendingReplies' = 0)
             => m_idleTimer']_vars

----------------------------------------------------------------------------
(* File transfers with the option to preserve timestamps on or off, on a server that  *)
(* may list MDTM and SIZE in its reply to FEAT.                                       *)

ProbeFeatLines == {<<" ", "M", "D", "T", "M">>, <<" ", "S", "I", "Z", "E">>}

\* Transfers of a new local file, with nothing in the directory cache.
NewFileTransfers ==
    {[download |-> d, file |-> -1, entry |-> -1, binary |-> TRUE] : d \in BOOLEAN}

NextProbe ==
    \/ ConnectWith({"known"}, {TRUE}, {"MODE_PASSIVE"})
    \/ SocketConnected
    \/ StartTransferOpt(NewFileTransfers, BOOLEAN)
    \/ ServerFinal
    \/ ServerFeatOpen
    \/ ServerFeatLineOf(ProbeFeatLines)
    \/ ServerMultiClose
    \/ ServerSize

SpecProbe == Init /\ [][NextProbe]_vars

\* The last handler sent the command cmd.
JustSent(cmd) == Has("send") /\ wire # <<>> /\ wire[Len(wire)].cmd = cmd

\* C32: when MDTM is sent the mdtm capability is yes or unknown and the option to
\* preserve timestamps is on.
C32_MdtmOnlyWhenAsked ==
    JustSent("MDTM") => (caps.mdtm_command \in {"yes", "unknown"} /\ preserveTimestamps)

----------------------------------------------------------------------------
(* Transfers of both types, raw commands and keep-alive commands.                     *)

\* Downloads of a new local file in binary or ASCII mode.
TypedTransfers ==
    {[download |-> TRUE, file |-> -1, entry |-> -1, binary |-> b] : b \in BOOLEAN}

MaxTypeOps == 4      \* engine commands under SpecType: two transfers after Connect

NextType ==
    \/ ConnectWith({"known"}, {FALSE}, {"MODE_PASSIVE"})
    \/ SocketConnected
    \/ RawCommand
    \/ StartTransferMax(TypedTransfers, {TRUE}, MaxTypeOps)
    \/ Cancel
    \/ IdleTimer
    \/ DataSocketEnd
    \/ TransferEndEvent
    \/ ServerPreliminary
    \/ ServerFinal

\* A server in its default type, ASCII, with the history of its type kept.
InitType == InitTracked(NoCaps, "A")

SpecType == InitType /\ [][NextType]_vars

\* The commands sent by the step, in order.
SentByStep == SubSeq(wire', Len(wire') - Cardinality({k \in 1..Len(ev') : ev'[k] = "send"}) + 1,
                     Len(wire'))

\* The raw transfers the step has pushed: the one on top of the stack, or one that the
\* step has popped again.
PushedByStep ==
    {f \in (IF m_pCurOpData' # <<>> THEN {m_pCurOpData'[1]} ELSE {})
           \cup {pops'[i].frame : i \in 1..Len(pops')} :
        /\ f.opId = "rawtransfer"
        /\ ~(m_pCurOpData # <<>> /\ m_pCurOpData[1].opId = "rawtransfer"
             /\ m_pCurOpData[1].epoch = f.epoch)}

\* The type the file transfer of the step asks for: that of the frame below the raw
\* transfer, or of the file transfer popped with it.
BinaryOfStep ==
    LET fs == {m_pCurOpData'[i] : i \in 1..Len(m_pCurOpData')}
              \cup {pops'[i].frame : i \in 1..Len(pops')}
    IN  \E f \in fs : f.opId = "transfer" /\ f.binary

\* C33: a raw transfer starts with TYPE exactly when the type asked for is not the one
\* m_lastTypeBinary records: the step that pushes a raw transfer sends TYPE I or TYPE A
\* first if so, and PASV first otherwise.  OnConnect and RawCommandSend leave
\* m_lastTypeBinary at -1, and from -1 it changes only by a good reply to the TYPE
\* of a raw transfer.
C33_TypeWhenNeeded ==
    [][/\ (PushedByStep # {} /\ SentByStep # <<>>)
             => LET need == ~(\/ BinaryOfStep /\ m_lastTypeBinary = 1
                              \/ ~BinaryOfStep /\ m_lastTypeBinary = 0)
                IN  SentByStep[1].cmd = IF ~need THEN "PASV"
                                        ELSE IF BinaryOfStep THEN "TYPE I" ELSE "TYPE A"
       /\ SocketConnected => m_lastTypeBinary' = -1
       /\ (/\ \E k \in 1..Len(ev') : ev'[k] = "opsend"
           /\ RawCommand \/ (m_pCurOpData # <<>> /\ m_pCurOpData[1].opId = "raw"))
             => m_lastTypeBinary' = -1
       /\ (m_lastTypeBinary = -1 /\ m_lastTypeBinary' # -1)
             => /\ lastDeliv'[3] \in {"TYPE I", "TYPE A"}
                /\ lastDeliv'[1] = lastDeliv'[2]
                /\ m_lastTypeBinary' = IF lastDeliv'[3] = "TYPE I" THEN 1 ELSE 0]_vars

\* A binary transfer started with m_lastTypeBinary = 1 has sent PASV as its first
\* command: the reply before it was not one to TYPE.
C33_Witness ==
    /\ JustSent("PASV") /\ Len(m_pCurOpData) = 2
    /\ m_pCurOpData[1].opId = "rawtransfer"
    /\ m_pCurOpData[2].opId = "transfer" /\ m_pCurOpData[2].binary
    /\ lastDeliv[3] \notin {"TYPE I", "TYPE A"}
    /\ m_lastTypeBinary = 1

----------------------------------------------------------------------------
(* Resume offsets: uploads and downloads that the user may resume, to and from a       *)
(* server that is or is not known to have REST STREAM.                                 *)

OffsetTransfers ==
    {[download |-> FALSE, file |-> 1, entry |-> e, binary |-> b] :
        e \in {-1, 0, 1, 2}, b \in BOOLEAN}
    \cup {[download |-> TRUE, file |-> 1, entry |-> 2, binary |-> TRUE]}
    \cup {[download |-> TRUE, file |-> Limit4GB + 1, entry |-> Limit4GB + 2,
           binary |-> TRUE]}

InitOffset ==
    \E r \in {"unknown", "yes"} : InitWith([NoCaps EXCEPT !.rest_stream = r])

NextOffset ==
    \/ ConnectWith({"known"}, {FALSE}, {"MODE_PASSIVE"})
    \/ SocketConnected
    \/ StartTransferMax(OffsetTransfers, {TRUE}, MaxResumeOps)
    \/ FileExistsReplyWith({"overwrite", "resume"})
    \/ DataSocketEnd
    \/ TransferEndEvent
    \/ ServerPreliminary
    \/ ServerFinal

SpecOffset == InitOffset /\ [][NextOffset]_vars

\* The file transfer that has pushed the raw transfer on top of the stack.
DataTransfers ==
    IF Len(m_pCurOpData) >= 2 /\ m_pCurOpData[1].opId = "rawtransfer"
                              /\ m_pCurOpData[2].opId = "transfer"
    THEN {m_pCurOpData[2]} ELSE {}

\* C34, as stated: the data command and the resume offset of a file transfer, with the
\* offset of a resumed upload to a server with REST STREAM equal to the remote size and
\* that of a resumed download equal to the local size.
C34_AsStated ==
    \A f \in DataTransfers :
        LET cmd == m_pCurOpData[1].cmd_
        IN  IF ~f.resume
            THEN f.resumeOffset = 0 /\ cmd = IF f.download THEN "RETR" ELSE "STOR"
            ELSE IF f.download
            THEN f.resumeOffset = f.localFileSize /\ cmd = "RETR"
            ELSE IF caps.rest_stream = "yes"
            THEN f.resumeOffset = f.remoteFileSize /\ cmd = "STOR"
            ELSE f.resumeOffset = 0 /\ cmd = "APPE"

\* C34: the same, but a resumed upload to a server with REST STREAM has the offset 0
\* when the remote size is not above 0, and the download that tests the server's resume
\* has the offset of the last byte of the remote file.
C34_ResumeOffset ==
    \A f \in DataTransfers :
        LET cmd == m_pCurOpData[1].cmd_
        IN  IF ~f.resume
            THEN f.resumeOffset = 0 /\ cmd = IF f.download THEN "RETR" ELSE "STOR"
            ELSE IF f.download
            THEN /\ cmd = "RETR"
                 /\ f.resumeOffset = IF f.opState = "filetransfer_waitresumetest"
                                     THEN f.remoteFileSize - 1 ELSE f.localFileSize
            ELSE IF caps.rest_stream = "yes"
            THEN /\ cmd = "STOR"
                 /\ f.resumeOffset = IF f.remoteFileSize > 0 THEN f.remoteFileSize ELSE 0
            ELSE f.resumeOffset = 0 /\ cmd = "APPE"

\* A resumed upload to a server with REST STREAM: STOR, from the size of the remote
\* file on, which the local file does not have.
C34_Witness ==
    /\ caps.rest_stream = "yes"
    /\ \E f \in DataTransfers :
          /\ ~f.download /\ f.resume
          /\ f.remoteFileSize = 2 /\ f.localFileSize = 1 /\ f.resumeOffset = 2
          /\ m_pCurOpData[1].cmd_ = "STOR"
    /\ JustSent("STOR")

----------------------------------------------------------------------------
\* C35: the first line received after the connection is made, if it begins with "ssh"
\* in either case, closes the connection with FZ_REPLY_CRITICALERROR and no line after it
\* is handed to ParseLine; no other line closes the connection for beginning with "ssh".
C35_SshWelcome ==
    /\ (parsed # <<>> /\ StartsWithSsh(parsed[1]))
          => /\ ~connected
             /\ Len(parsed) = 1
    /\ Has("ssh")
          => /\ Len(parsed) = 1 /\ StartsWithSsh(parsed[1])
             /\ Has("close")
             /\ \E i \in 1..Len(pops) :
                   /\ pops[i].frame.opId = "connect"
                   /\ pops[i].frame.opState = "LOGON_WELCOME"
                   /\ FZ_REPLY_CRITICALERROR \subseteq pops[i].code

\* One read has given the line "ssh" and a whole line after it: the first has closed
\* the connection and the second was not handed to ParseLine.
C35_Witness ==
    /\ Has("ssh") /\ ~connected
    /\ Len(Split(received).done) >= 2
    /\ parsed = <<<<"s", "s", "h">>>>

----------------------------------------------------------------------------
(* The resume test: downloads that resume a local file at and around the limits, from  *)
(* a server whose resume of files above 4 GB is unknown or known to work.              *)

TestedTransfers ==
    {[download |-> TRUE, file |-> f, entry |-> f + 1, binary |-> TRUE] :
        f \in {Limit2GB, Limit4GB, Limit4GB + 1}}

InitResumeTest ==
    \E c \in {"unknown", "no"} : InitWith([NoCaps EXCEPT !.resume4GBbug = c])

NextResumeTest ==
    \/ ConnectWith({"known"}, {FALSE}, {"MODE_PASSIVE"})
    \/ SocketConnected
    \/ StartTransferMax(TestedTransfers, {TRUE}, MaxResumeOps)
    \/ FileExistsReplyWith({"resume"})
    \/ DataSocketEnd
    \/ TransferEndEvent
    \/ ServerPreliminary
    \/ ServerFinal

SpecResumeTest == InitResumeTest /\ [][NextResumeTest]_vars

\* The file transfers on the stack that wait for the end of their resume test.
Testing ==
    {m_pCurOpData[i] : i \in {j \in 1..Len(m_pCurOpData) :
        /\ m_pCurOpData[j].opId = "transfer"
        /\ m_pCurOpData[j].opState = "filetransfer_waitresumetest"}}

\* The capability whose value unknown has started the resume test of f: the first one
\* in the order of FileTransferTestResumeCapability's loop that is unknown and whose
\* limit the local file has reached.
TriggerOf(f) ==
    IF f.localFileSize >= Limit4GB /\ caps.resume4GBbug = "unknown" THEN "resume4GBbug"
    ELSE "resume2GBbug"

\* C36: the step that concludes a resume test sets the capability that has started it,
\* to no if the test has passed and to yes if it has failed, and leaves the other one.
C36_TestSettlesTrigger ==
    [][\A f \in Testing :
          \A tag \in {"resume_ok", "resume_bug"} :
             (\E k \in 1..Len(ev') : ev'[k] = tag)
                => /\ caps'[TriggerOf(f)] = IF tag = "resume_ok" THEN "no" ELSE "yes"
                   /\ \A c \in {"resume4GBbug", "resume2GBbug"} \ {TriggerOf(f)} :
                         caps'[c] = caps[c]]_vars

----------------------------------------------------------------------------
\* C37: the change-directory op pushed for an upload has tryMkdOnFail set, and no other
\* one has.
C37_UploadTriesMkd ==
    \A i \in 1..Len(m_pCurOpData) :
        m_pCurOpData[i].opId = "cwd"
            => m_pCurOpData[i].tryMkdOnFail =
                  (/\ i < Len(m_pCurOpData)
                   /\ m_pCurOpData[i + 1].opId = "transfer"
                   /\ ~m_pCurOpData[i + 1].download)

----------------------------------------------------------------------------
(* Replies to async requests that come at any time: the user, or a request left over   *)
(* from an earlier op, answers a file-exists request or an interactive-login request   *)
(* whatever the op on top of the stack is and whether it waits or not.                 *)

AsyncReplyAny ==
    /\ ~crashed /\ connected
    /\ \E action \in {"overwrite", "skip", "password", "nopassword"}, e \in EnvFor(Cur) :
         Apply(Handle([Cur EXCEPT !.env = e], "SetAsyncRequestReply", action))
    /\ UNCHANGED Others

NextAsync ==
    \/ ConnectWith({"known", "ask"}, {FALSE}, {"MODE_PASSIVE"})
    \/ SocketConnected
    \/ StartFileTransfer
    \/ AsyncReplyAny
    \/ DataSocketEnd
    \/ TransferEndEvent
    \/ ServerPreliminary
    \/ ServerFinal

SpecAsync == Init /\ [][NextAsync]_vars

\* C38: a reply that SetAsyncRequestReply turns down, because the op on top of the stack
\* does not wait or is not the op the reply is for, changes neither the op stack (the
\* waitForAsyncRequest flag of the top op included) nor the connection nor the counters
\* of replies, and sends nothing.
C38_RejectedReplyNoEffect ==
    [][(\E k \in 1..Len(ev') : ev'[k] = "async_ignored")
          => /\ m_pCurOpData' = m_pCurOpData
             /\ UNCHANGED <<connected, connecting, m_pendingReplies, m_repliesToSkip, wire,
                            m_pTransferSocket, caps, m_lastTypeBinary>>]_vars

----------------------------------------------------------------------------
\* The number of times the handler of the step has logged tag.
Count(tag) == Cardinality({k \in 1..Len(ev) : ev[k] = tag})

\* C39: a handler in which an op's Send or ParseResponse has failed or completed (a
\* command that could not be sent, a local file that could not be opened, a reply given
\* to the op) and that has not closed the connection calls ResetOperation once for each
\* frame it pops and gives the engine at most one result.
C39_ResetOnce ==
    ((Has("convfail") \/ Has("openfail") \/ Has("to_op")) /\ ~Has("close"))
        => /\ Count("reset") = Count("pop")
           /\ Count("result") <= 1

----------------------------------------------------------------------------
====
